---- MODULE Spec2Model ----
(***************************************************************************)
(* The raster image engine of the OMR repository (src/PIL): the in-memory  *)
(* grayscale Image, the graymap and PNG codecs, and the drawing operations *)
(* that paint onto an Image.                                               *)
(*                                                                         *)
(* Python lists are objects: every pixel row lives in `heap` under an      *)
(* address, and an Image's `pixels` is the list of its rows' addresses, so *)
(* that sharing a row between two Images is a state the model can express. *)
(* Files are byte sequences.  Exceptions are strings naming the exception  *)
(* class and the message of the raise statement.                           *)
(***************************************************************************)
EXTENDS Integers, Sequences, FiniteSets, TLC

VARIABLES
    heap,     \* the row lists allocated so far: address -> list of integers
    images,   \* the Image objects the caller holds, in creation order
    origin,   \* per Image: the operation that built it and the Image it read
    fs,       \* the file system: path -> [exists, data]
    made,     \* per path: how the bytes of the file came to be
    result,   \* the last call: its name, its arguments and its outcome
    nwrites   \* the number of putpixel and drawing calls made so far

vars == <<heap, images, origin, fs, made, result, nwrites>>

----------------------------------------------------------------------------
(* Bounds of the model *)

\* largest width and height passed to new()
MaxDim == 2
\* number of Image objects a behaviour creates
MaxImages == 2
\* number of putpixel and drawing calls of a behaviour
MaxWrites == 2
\* largest font size and longest text measured
MaxSize == 12
MaxText == 9
\* number of chunks of a PNG file that was not written by save()
MaxChunks == 3
\* number of IDAT chunks one compressed stream is split over
MaxPieces == 3
\* the farthest coordinate given to a drawing call
Far == 10
\* the widest line drawn
MaxWidth == 3
\* the most points of a path given to line()
MaxPoints == 5

----------------------------------------------------------------------------
(* Integers, lists and bytes as Python and struct treat them *)

Max(a, b) == IF a >= b THEN a ELSE b
Min(a, b) == IF a <= b THEN a ELSE b
Abs(a) == IF a >= 0 THEN a ELSE -a

\* range(n): empty for n <= 0
Range(n) == 1..Max(0, n)

\* list[i]: the 1-based position that Python index i selects, 0 for IndexError
PyIndex(len, i) ==
    IF i >= 0 /\ i < len THEN i + 1
    ELSE IF i < 0 /\ i >= -len THEN len + i + 1
    ELSE 0

\* a slice bound: a negative bound counts from the end, both are clipped
PySliceBound(len, i) == IF i < 0 THEN Max(0, len + i) ELSE Min(i, len)

\* list[lo:hi]
PySlice(s, lo, hi) ==
    LET a == PySliceBound(Len(s), lo)
        b == PySliceBound(Len(s), hi)
    IN  IF a < b THEN SubSeq(s, a + 1, b) ELSE <<>>

RECURSIVE XorBits(_, _, _)
\* bitwise exclusive or of the low n bits of a and b
XorBits(a, b, n) ==
    IF n = 0 \/ (a = 0 /\ b = 0) THEN 0
    ELSE ((a + b) % 2) + 2 * XorBits(a \div 2, b \div 2, n - 1)

\* the exclusive or of two 4-bit values, tabulated (@@ has TLC build the
\* table once); of two bytes; of two 16-bit values
XorNibble == [a \in 0..15 |-> [b \in 0..15 |-> XorBits(a, b, 4)] @@ << >>] @@ << >>
XorByte(a, b) == 16 * XorNibble[a \div 16][b \div 16] + XorNibble[a % 16][b % 16]
Xor16(a, b) == 256 * XorByte(a \div 256, b \div 256) + XorByte(a % 256, b % 256)

\* A 32-bit word is the pair <<high 16 bits, low 16 bits>>: the integers of
\* TLC are narrower than an unsigned 32-bit value.
Xor32(v, w) == << Xor16(v[1], w[1]), Xor16(v[2], w[2]) >>

\* the four bytes of a 32-bit word, most significant first
WordBytes(v) == << v[1] \div 256, v[1] % 256, v[2] \div 256, v[2] % 256 >>

\* the 32-bit word held in the four bytes of s that start at position p
BytesWord(s, p) == << s[p] * 256 + s[p + 1], s[p + 2] * 256 + s[p + 3] >>

\* struct.pack(">I", n), for the n this model packs (0 <= n < 2^31)
PackU32(n) ==
    << (n \div 16777216) % 256, (n \div 65536) % 256, (n \div 256) % 256, n % 256 >>

\* struct.unpack(">I", b) of the four bytes of s that start at position p.
\* A value of 2^31 or more is reported as 2^31 - 1: it is only ever compared
\* with the length of a file or of a payload, which is far smaller.
UnpackU32(s, p) ==
    IF s[p] >= 128 THEN 2147483647
    ELSE s[p] * 16777216 + s[p + 1] * 65536 + s[p + 2] * 256 + s[p + 3]

RECURSIVE Crc32Bit(_, _)
\* the eight shift steps of the reflected CRC-32 (polynomial EDB88320)
Crc32Bit(c, k) ==
    IF k = 0 THEN c
    ELSE LET half == << c[1] \div 2, (c[2] \div 2) + (c[1] % 2) * 32768 >>
         IN  Crc32Bit(IF c[2] % 2 = 1 THEN Xor32(half, << 60856, 33568 >>) ELSE half,
                      k - 1)

\* the 256 entries of the CRC-32 table
Crc32Table == [b \in 0..255 |-> Crc32Bit(<< 0, b >>, 8)] @@ << >>

\* one byte b taken into the register c of the table-driven CRC-32
Crc32Byte(c, b) ==
    Xor32(Crc32Table[XorByte(c[2] % 256, b)],
          << c[1] \div 256, (c[1] % 256) * 256 + (c[2] \div 256) >>)

RECURSIVE Crc32Raw(_, _, _)
\* the table-driven CRC-32 of the bytes of s from position i on, continued
\* from the register c (the register is computed at every byte, once)
Crc32Raw(s, i, c) ==
    IF i > Len(s) THEN c
    ELSE CHOOSE r \in { Crc32Raw(s, i + 1, Crc32Byte(v, b)) : v \in { c }, b \in { s[i] } } :
             TRUE

\* zlib.crc32(b""): the CRC-32 of no bytes
Crc32Start == << 0, 0 >>

\* zlib.crc32(data, crc): the running CRC-32 of data continued from crc
crc32(data, crc) ==
    CHOOSE x \in { Xor32(r, << 65535, 65535 >>) :
                     r \in { Crc32Raw(data, 1, Xor32(crc, << 65535, 65535 >>)) } } : TRUE

RECURSIVE AdlerSums(_, _, _, _)
AdlerSums(s, i, a, b) ==
    IF a + b < 0 \/ i > Len(s) THEN << b, a >>
    ELSE AdlerSums(s, i + 1, (a + s[i]) % 65521, (b + ((a + s[i]) % 65521)) % 65521)

\* the Adler-32 checksum that ends a zlib stream, as a 32-bit word
adler32(data) == AdlerSums(data, 1, 1, 0)

----------------------------------------------------------------------------
(* Exceptions: the class and the message of each raise statement *)

NoError == ""
IndexError == "IndexError: list index out of range"
StructError == "struct.error"
ZlibError == "zlib.error"
FileNotFoundError == "FileNotFoundError"
ConversionError == "ValueError: Only grayscale conversion is supported"
TruncatedError == "ValueError: Truncated PNG file"
CorruptedError == "ValueError: Corrupted PNG file"
ColorTypeError == "ValueError: Unsupported PNG color type"
CompressionError == "ValueError: Unsupported PNG compression settings"
IncompleteError == "ValueError: Incomplete PNG file"
DataLengthError == "ValueError: Unexpected PNG data length"
FilterTypeError == "ValueError: Unsupported PNG filter type"

----------------------------------------------------------------------------
(* class Image *)

\* the value a call yields when it raises instead of returning an Image
NoImage == [mode |-> "", width |-> 0, height |-> 0, pixels |-> << >>]

\* the addresses n fresh rows get on a heap hp
Fresh(hp, n) == [i \in 1..n |-> Len(hp) + i]

\* the pixel grid an Image reads through its row addresses
Grid(hp, image) == [i \in 1..Len(image.pixels) |-> hp[image.pixels[i]]]

\* Image.new(mode, (width, height), color)
new(hp, mode, width, height, color) ==
    LET pixels == [i \in Range(height) |-> [j \in Range(width) |-> color]]
    IN  [err |-> NoError,
         heap |-> hp \o pixels,
         image |-> [mode |-> mode, width |-> width, height |-> height,
                    pixels |-> Fresh(hp, Len(pixels))]]

\* a convert that hands out the rows of self instead of copies of them
convert_shared(hp, self, mode) ==
    IF mode # "L" THEN [err |-> ConversionError, heap |-> hp, image |-> NoImage]
    ELSE [err |-> NoError,
          heap |-> hp,
          image |-> [mode |-> "L", width |-> self.width, height |-> self.height,
                     pixels |-> self.pixels]]

\* Image.convert(mode)
convert(hp, self, mode) ==
    IF mode # "L" THEN [err |-> ConversionError, heap |-> hp, image |-> NoImage]
    ELSE LET pixels == [i \in 1..Len(self.pixels) |-> hp[self.pixels[i]]]
         IN  [err |-> NoError,
              heap |-> hp \o pixels,
              image |-> [mode |-> "L", width |-> self.width, height |-> self.height,
                         pixels |-> Fresh(hp, Len(pixels))]]

\* Image.crop((left, upper, right, lower))
crop(hp, self, left0, upper0, right0, lower0) ==
    LET left == Max(0, left0)
        upper == Max(0, upper0)
        right == Min(self.width, right0)
        lower == Min(self.height, lower0)
        rows == PySlice(self.pixels, upper, lower)
        new_pixels == [i \in 1..Len(rows) |-> PySlice(hp[rows[i]], left, right)]
    IN  [err |-> NoError,
         heap |-> hp \o new_pixels,
         image |-> [mode |-> self.mode, width |-> right - left,
                    height |-> lower - upper,
                    pixels |-> Fresh(hp, Len(new_pixels))]]

\* Image.getpixel((x, y))
getpixel(hp, self, x, y) ==
    LET r == PyIndex(Len(self.pixels), y)
        c == IF r = 0 THEN 0 ELSE PyIndex(Len(hp[self.pixels[r]]), x)
    IN  IF r = 0 \/ c = 0 THEN [err |-> IndexError, value |-> 0]
        ELSE [err |-> NoError, value |-> hp[self.pixels[r]][c]]

\* a putpixel that stores the value as save() would write it
putpixel_clamped(hp, self, x, y, value) ==
    LET r == PyIndex(Len(self.pixels), y)
        c == IF r = 0 THEN 0 ELSE PyIndex(Len(hp[self.pixels[r]]), x)
    IN  IF r = 0 \/ c = 0 THEN [err |-> IndexError, heap |-> hp]
        ELSE [err |-> NoError,
              heap |-> [hp EXCEPT ![self.pixels[r]][c] = Max(0, Min(255, value))]]

\* Image.putpixel((x, y), value)
putpixel(hp, self, x, y, value) ==
    LET r == PyIndex(Len(self.pixels), y)
        c == IF r = 0 THEN 0 ELSE PyIndex(Len(hp[self.pixels[r]]), x)
    IN  IF r = 0 \/ c = 0 THEN [err |-> IndexError, heap |-> hp]
        ELSE [err |-> NoError,
              heap |-> [hp EXCEPT ![self.pixels[r]][c] = value]]

----------------------------------------------------------------------------
(* The PNG codec *)

\* b"\x89PNG\r\n\x1a\n"
PNG_SIGNATURE == << 137, 80, 78, 71, 13, 10, 26, 10 >>

IHDR == << 73, 72, 68, 82 >>
IDAT == << 73, 68, 65, 84 >>
IEND == << 73, 69, 78, 68 >>

\* a clamp that keeps the low eight bits of the value
clamp_wrapped(value) == value % 256

\* _clamp_to_byte(value)
clamp_to_byte(value) == Max(0, Min(255, value))

\* the zlib stream of raw, as zlib writes it without compression: the
\* two-byte header, one final stored block (LEN, its complement, the bytes)
\* and the Adler-32 of raw.  The encoder's choice of block type is the
\* library's; every choice decompresses to raw.
zlib_compress(raw) ==
    << 120, 1, 1 >>
    \o << Len(raw) % 256, Len(raw) \div 256 >>
    \o << (65535 - Len(raw)) % 256, (65535 - Len(raw)) \div 256 >>
    \o raw
    \o WordBytes(adler32(raw))

RECURSIVE Inflate(_, _, _)
\* the stored blocks of a deflate stream from position p on, then the
\* Adler-32; bytes after the checksum are ignored.  A Huffman-coded block is
\* outside the model and is reported like an invalid one.
Inflate(s, p, out) ==
    IF p + 4 > Len(s) THEN [err |-> ZlibError, data |-> << >>]
    ELSE LET final == s[p] % 2
             btype == (s[p] \div 2) % 4
             len == s[p + 1] + 256 * s[p + 2]
             nlen == s[p + 3] + 256 * s[p + 4]
             q == p + 5 + len
             all == out \o SubSeq(s, p + 5, q - 1)
         IN  IF btype # 0 \/ len + nlen # 65535 \/ q - 1 > Len(s)
             THEN [err |-> ZlibError, data |-> << >>]
             ELSE IF final = 0 THEN Inflate(s, q, all)
             ELSE IF q + 3 > Len(s) \/ BytesWord(s, q) # adler32(all)
             THEN [err |-> ZlibError, data |-> << >>]
             ELSE [err |-> NoError, data |-> all]

\* zlib.decompress(data)
zlib_decompress(s) ==
    IF Len(s) < 2 THEN [err |-> ZlibError, data |-> << >>]
    ELSE IF s[1] % 16 # 8 \/ s[1] \div 16 > 7 \/ (s[1] * 256 + s[2]) % 31 # 0
            \/ (s[2] \div 32) % 2 = 1
    THEN [err |-> ZlibError, data |-> << >>]
    ELSE Inflate(s, 3, << >>)

\* a chunk whose CRC covers the payload but not the type tag
write_png_chunk_payload_crc(chunk_type, data) ==
    PackU32(Len(data)) \o chunk_type \o data \o WordBytes(crc32(data, Crc32Start))

\* _write_png_chunk: the bytes one chunk adds to the file
write_png_chunk(chunk_type, data) ==
    PackU32(Len(data)) \o chunk_type \o data
    \o WordBytes(crc32(data, crc32(chunk_type, Crc32Start)))

RECURSIVE RawData(_, _)
\* raw_data: per row a filter byte 0, then the clamped values of the row
RawData(rows, i) ==
    IF i > Len(rows) THEN << >>
    ELSE << 0 >> \o [j \in 1..Len(rows[i]) |-> clamp_to_byte(rows[i][j])]
         \o RawData(rows, i + 1)

\* struct.pack(">IIBBBBB", width, height, 8, 0, 0, 0, 0)
PackIHDR(width, height) == PackU32(width) \o PackU32(height) \o << 8, 0, 0, 0, 0 >>

\* _save_png: the bytes written to the handle, and the exception if any.
\* struct.pack refuses a negative width or height after the signature has
\* been written.
save_png(hp, image) ==
    IF image.width < 0 \/ image.height < 0
    THEN [err |-> StructError, data |-> PNG_SIGNATURE]
    ELSE [err |-> NoError,
          data |-> PNG_SIGNATURE
                   \o write_png_chunk(IHDR, PackIHDR(image.width, image.height))
                   \o write_png_chunk(IDAT, zlib_compress(RawData(Grid(hp, image), 1)))
                   \o write_png_chunk(IEND, << >>)]

\* a read that fills what the file lacks with bytes 0
Read_padded(s, p, n) == [k \in 1..n |-> IF p + k - 1 <= Len(s) THEN s[p + k - 1] ELSE 0]

\* handle.read(n) at position p: at most n bytes, fewer at the end of the file
Read(s, p, n) == SubSeq(s, p, p + Min(n, Len(s) - p + 1) - 1)

\* the unset width, height, bit_depth and color_type of _open_png
None == -1

\* an expected length that leaves out the filter byte of each row
expected_length_no_filter(stride, height) == stride * height

\* (stride + 1) * height.  The product is only compared with the length of
\* the decompressed data, so a product of 2^31 or more is reported as 2^31 - 1.
expected_length(stride, height) ==
    IF height = 0 THEN 0
    ELSE IF stride >= 65535 \/ height >= 32768 THEN 2147483647
    ELSE (stride + 1) * height

\* the decoder's answer when it raises
Raise(e) == [err |-> e, width |-> 0, height |-> 0, rows |-> << >>]

\* a chunk loop body that puts the payload of an IDAT chunk before the data
\* collected so far
ChunkBody_prepend(chunk_type, data, st) ==
    IF chunk_type = IHDR THEN
        IF Len(data) # 13 THEN [st EXCEPT !.err = StructError]
        ELSE IF data[9] # 8 \/ data[10] # 0 THEN [st EXCEPT !.err = ColorTypeError]
        ELSE IF data[11] # 0 \/ data[12] # 0 \/ data[13] # 0
        THEN [st EXCEPT !.err = CompressionError]
        ELSE [st EXCEPT !.width = UnpackU32(data, 1), !.height = UnpackU32(data, 5),
                        !.bit_depth = data[9], !.color_type = data[10]]
    ELSE IF chunk_type = IDAT THEN [st EXCEPT !.idat_data = data \o @]
    ELSE IF chunk_type = IEND THEN [st EXCEPT !.done = TRUE]
    ELSE st

\* a chunk loop body that does not look at the interlace field of IHDR
ChunkBody_no_interlace(chunk_type, data, st) ==
    IF chunk_type = IHDR THEN
        IF Len(data) # 13 THEN [st EXCEPT !.err = StructError]
        ELSE IF data[9] # 8 \/ data[10] # 0 THEN [st EXCEPT !.err = ColorTypeError]
        ELSE IF data[11] # 0 \/ data[12] # 0
        THEN [st EXCEPT !.err = CompressionError]
        ELSE [st EXCEPT !.width = UnpackU32(data, 1), !.height = UnpackU32(data, 5),
                        !.bit_depth = data[9], !.color_type = data[10]]
    ELSE IF chunk_type = IDAT THEN [st EXCEPT !.idat_data = @ \o data]
    ELSE IF chunk_type = IEND THEN [st EXCEPT !.done = TRUE]
    ELSE st

\* the branch of the chunk loop on the chunk type, after the CRC check
ChunkBody(chunk_type, data, st) ==
    IF chunk_type = IHDR THEN
        IF Len(data) # 13 THEN [st EXCEPT !.err = StructError]
        ELSE IF data[9] # 8 \/ data[10] # 0 THEN [st EXCEPT !.err = ColorTypeError]
        ELSE IF data[11] # 0 \/ data[12] # 0 \/ data[13] # 0
        THEN [st EXCEPT !.err = CompressionError]
        ELSE [st EXCEPT !.width = UnpackU32(data, 1), !.height = UnpackU32(data, 5),
                        !.bit_depth = data[9], !.color_type = data[10]]
    ELSE IF chunk_type = IDAT THEN [st EXCEPT !.idat_data = @ \o data]
    ELSE IF chunk_type = IEND THEN [st EXCEPT !.done = TRUE]
    ELSE st

\* a CRC test that passes every chunk without payload
CrcMatches_nonempty(chunk_type, data, crc_bytes) ==
    \/ data = << >>
    \/ crc32(data, crc32(chunk_type, Crc32Start)) = BytesWord(crc_bytes, 1)

\* whether the stored CRC of a chunk is the CRC-32 of its type and payload
CrcMatches(chunk_type, data, crc_bytes) ==
    crc32(data, crc32(chunk_type, Crc32Start)) = BytesWord(crc_bytes, 1)

\* _open_png before its first read: nothing is set, pos is the position of
\* the handle in the file (the first byte is at 1)
Unread ==
    [err |-> NoError, done |-> FALSE, width |-> None, height |-> None,
     bit_depth |-> None, color_type |-> None, idat_data |-> << >>,
     pos |-> Len(PNG_SIGNATURE) + 1]

\* a pass through the loop that looks at the chunk before it tests the CRC
ChunkStep_body_first(s, p, st) ==
    LET length_bytes == Read(s, p, 4)
        length == UnpackU32(length_bytes, 1)
        chunk_type == Read(s, p + 4, 4)
        data == Read(s, p + 8, length)
        crc_bytes == Read(s, p + 8 + Len(data), 4)
        Raised(err, n) == [st EXCEPT !.err = err, !.pos = p + n]
    IN  IF Len(length_bytes) # 4 THEN Raised(TruncatedError, Len(length_bytes))
        ELSE IF Len(chunk_type) # 4 THEN Raised(TruncatedError, 4 + Len(chunk_type))
        ELSE IF Len(data) # length THEN Raised(TruncatedError, 8 + Len(data))
        ELSE IF Len(crc_bytes) # 4
        THEN Raised(TruncatedError, 8 + length + Len(crc_bytes))
        ELSE IF ChunkBody(chunk_type, data, st).err # NoError
        THEN [ChunkBody(chunk_type, data, st) EXCEPT !.pos = p + 12 + length]
        ELSE IF ~CrcMatches(chunk_type, data, crc_bytes)
        THEN Raised(CorruptedError, 12 + length)
        ELSE [ChunkBody(chunk_type, data, st) EXCEPT !.pos = p + 12 + length]

\* a pass through the loop that leaves the handle behind the payload it read,
\* as if length, type and CRC took no room in the file
ChunkStep_payload_only(s, p, st) ==
    LET length_bytes == Read(s, p, 4)
        length == UnpackU32(length_bytes, 1)
        chunk_type == Read(s, p + 4, 4)
        data == Read(s, p + 8, length)
        crc_bytes == Read(s, p + 8 + Len(data), 4)
        Raised(err, n) == [st EXCEPT !.err = err, !.pos = p + n]
    IN  IF Len(length_bytes) # 4 THEN Raised(TruncatedError, Len(length_bytes))
        ELSE IF Len(chunk_type) # 4 THEN Raised(TruncatedError, 4 + Len(chunk_type))
        ELSE IF Len(data) # length THEN Raised(TruncatedError, 8 + Len(data))
        ELSE IF Len(crc_bytes) # 4
        THEN Raised(TruncatedError, 8 + length + Len(crc_bytes))
        ELSE IF ~CrcMatches(chunk_type, data, crc_bytes)
        THEN Raised(CorruptedError, 12 + length)
        ELSE [ChunkBody(chunk_type, data, st) EXCEPT !.pos = p + length]

\* one pass through the while loop of _open_png, the handle at position p:
\* the four reads, the CRC test and the branch on the chunk type.  pos is
\* where the reads of the pass leave the handle, also when the pass raises.
ChunkStep(s, p, st) ==
    LET length_bytes == Read(s, p, 4)
        length == UnpackU32(length_bytes, 1)
        chunk_type == Read(s, p + 4, 4)
        data == Read(s, p + 8, length)
        crc_bytes == Read(s, p + 8 + Len(data), 4)
        Raised(err, n) == [st EXCEPT !.err = err, !.pos = p + n]
    IN  IF Len(length_bytes) # 4 THEN Raised(TruncatedError, Len(length_bytes))
        ELSE IF Len(chunk_type) # 4 THEN Raised(TruncatedError, 4 + Len(chunk_type))
        ELSE IF Len(data) # length THEN Raised(TruncatedError, 8 + Len(data))
        ELSE IF Len(crc_bytes) # 4
        THEN Raised(TruncatedError, 8 + length + Len(crc_bytes))
        ELSE IF ~CrcMatches(chunk_type, data, crc_bytes)
        THEN Raised(CorruptedError, 12 + length)
        ELSE [ChunkBody(chunk_type, data, st) EXCEPT !.pos = p + 12 + length]

RECURSIVE ChunkLoop(_, _, _)
\* the while loop of _open_png, reading s from position p
ChunkLoop(s, p, st) ==
    LET nxt == ChunkStep(s, p, st)
    IN  IF nxt.err # NoError \/ nxt.done THEN nxt
        ELSE ChunkLoop(s, nxt.pos, nxt)

RECURSIVE Scanlines_first_row(_, _, _, _, _)
\* a row loop that looks at the filter byte of the first row only
Scanlines_first_row(decompressed, offset, stride, k, pixels) ==
    IF k <= 0 THEN [err |-> NoError, rows |-> pixels]
    ELSE IF PyIndex(Len(decompressed), offset) = 0
    THEN [err |-> IndexError, rows |-> << >>]
    ELSE IF offset = 0 /\ decompressed[PyIndex(Len(decompressed), offset)] # 0
    THEN [err |-> FilterTypeError, rows |-> << >>]
    ELSE Scanlines_first_row(decompressed, offset + 1 + stride, stride, k - 1,
                             Append(pixels, PySlice(decompressed, offset + 1,
                                                    offset + 1 + stride)))

RECURSIVE Scanlines(_, _, _, _, _)
\* the for loop of _open_png over the rows of the decompressed data, with k
\* rows still to read
Scanlines(decompressed, offset, stride, k, pixels) ==
    IF k <= 0 THEN [err |-> NoError, rows |-> pixels]
    ELSE IF PyIndex(Len(decompressed), offset) = 0
    THEN [err |-> IndexError, rows |-> << >>]
    ELSE IF decompressed[PyIndex(Len(decompressed), offset)] # 0
    THEN [err |-> FilterTypeError, rows |-> << >>]
    ELSE Scanlines(decompressed, offset + 1 + stride, stride, k - 1,
                   Append(pixels, PySlice(decompressed, offset + 1, offset + 1 + stride)))

\* _open_png after its loop, left with st: the test for the header, the
\* decompression and the rows
Decoded(st) ==
    LET z == zlib_decompress(st.idat_data)
        lines == Scanlines(z.data, 0, st.width, st.height, << >>)
    IN  IF st.err # NoError THEN Raise(st.err)
        ELSE IF st.width = None \/ st.height = None \/ st.bit_depth = None
                \/ st.color_type = None
        THEN Raise(IncompleteError)
        ELSE IF z.err # NoError THEN Raise(z.err)
        ELSE IF Len(z.data) # expected_length(st.width, st.height)
        THEN Raise(DataLengthError)
        ELSE IF lines.err # NoError THEN Raise(lines.err)
        ELSE [err |-> NoError, width |-> st.width, height |-> st.height,
              rows |-> lines.rows]

\* _open_png(handle), the handle standing after the signature of s
open_png(s) == Decoded(ChunkLoop(s, Unread.pos, Unread))

----------------------------------------------------------------------------
(* class _Draw, and ImageFont.getbbox.  Coordinates are integers; an absent *)
(* colour (fill=None, outline=None) is the empty sequence, a colour v is    *)
(* << v >>.  With integer boxes the quotients of ellipse() are compared     *)
(* exactly, as products of integers.                                        *)

TypeError == "TypeError"

RECURSIVE ConcatRange(_, _, _)
\* the lists ss[a], ..., ss[b], joined
ConcatRange(ss, a, b) ==
    IF a > b THEN << >>
    ELSE IF a = b THEN ss[a]
    ELSE CHOOSE joined \in { ConcatRange(ss, a, m) \o ConcatRange(ss, m + 1, b) :
                               m \in { (a + b) \div 2 } } : TRUE

\* the lists of ss from the i-th on, joined
Concat(ss, i) == CHOOSE joined \in { ConcatRange(v, i, Len(v)) : v \in { ss } } : TRUE

\* the cells of range(ya, yb + 1) x range(xa, xb + 1), the first range outermost
Cells(ya, yb, xa, xb) ==
    LET ny == Max(0, yb - ya + 1)
        nx == Max(0, xb - xa + 1)
    IN  [k \in 1..(ny * nx) |-> [x |-> xa + ((k - 1) % nx), y |-> ya + ((k - 1) \div nx)]]

\* the positions the first n putpixel calls of a drawing call are given
Targets(writes, n) == { << writes[k].x, writes[k].y >> : k \in 1..n }

RECURSIVE PutRange(_, _, _, _, _)
\* the putpixel calls writes[a] .. writes[b] in order, stopping at the first
\* one that raises; at is the index of the last call made
PutRange(hp, self, writes, a, b) ==
    IF a > b THEN [err |-> NoError, heap |-> hp, at |-> b]
    ELSE IF a = b
    THEN CHOOSE o \in { [err |-> r.err, heap |-> r.heap, at |-> a] :
                        r \in { putpixel(hp, self, writes[a].x, writes[a].y,
                                         writes[a].value) } } : TRUE
    ELSE CHOOSE o \in { IF left.err # NoError THEN left
                        ELSE PutRange(left.heap, self, writes, (a + b) \div 2 + 1, b) :
                        left \in { PutRange(hp, self, writes, a, (a + b) \div 2) } } : TRUE

PutAll(hp, self, writes, k) ==
    CHOOSE o \in UNION { { [err |-> r.err, heap |-> r.heap,
                             targets |-> Targets(ws, r.at)] :
                               r \in { PutRange(hp, self, ws, k, Len(ws)) } } :
                         ws \in { writes } } : TRUE

\* a box whose width is rounded to the nearest integer
getbbox_rounded(size, text_len) ==
    << 0, 0, Max(1, (text_len * size * 6 + 5) \div 10), Max(1, size) >>

\* ImageFont.getbbox(text): int(len(text) * size * 0.6) is the floor of
\* 6 * len(text) * size / 10
getbbox(size, text_len) ==
    << 0, 0, Max(1, (text_len * size * 6) \div 10), Max(1, size) >>

\* an ellipse whose fill leaves out the pixels on the curve itself
EllipseWrites_open(self, x0, y0, x1, y1, fill, outline, width0) ==
    LET RX == Max(2, Abs(x1 - x0))
        RY == Max(2, Abs(y1 - y0))
        M == Max(RX, RY)
        width == Max(1, width0)
        D == RX * RX * RY * RY
        N(c) == (2 * c.x - (x0 + x1)) * (2 * c.x - (x0 + x1)) * RY * RY
                + (2 * c.y - (y0 + y1)) * (2 * c.y - (y0 + y1)) * RX * RX
        cells == Cells(y0, y1, x0, x1)
        At(c) ==
            IF c.y < 0 \/ c.y >= self.height \/ c.x < 0 \/ c.x >= self.width THEN << >>
            ELSE (IF fill # << >> /\ N(c) < D
                  THEN << [x |-> c.x, y |-> c.y, value |-> fill[1]] >> ELSE << >>)
                 \o (IF outline # << >> /\ (M - 2 * width) * D <= N(c) * M
                        /\ N(c) * M <= (M + 2 * width) * D
                     THEN << [x |-> c.x, y |-> c.y, value |-> outline[1]] >> ELSE << >>)
    IN  Concat([k \in 1..Len(cells) |-> At(cells[k])], 1)

\* the writes of _Draw.ellipse
EllipseWrites(self, x0, y0, x1, y1, fill, outline, width0) ==
    LET RX == Max(2, Abs(x1 - x0))
        RY == Max(2, Abs(y1 - y0))
        M == Max(RX, RY)
        width == Max(1, width0)
        D == RX * RX * RY * RY
        N(c) == (2 * c.x - (x0 + x1)) * (2 * c.x - (x0 + x1)) * RY * RY
                + (2 * c.y - (y0 + y1)) * (2 * c.y - (y0 + y1)) * RX * RX
        cells == Cells(y0, y1, x0, x1)
        At(c) ==
            IF c.y < 0 \/ c.y >= self.height \/ c.x < 0 \/ c.x >= self.width THEN << >>
            ELSE (IF fill # << >> /\ N(c) <= D
                  THEN << [x |-> c.x, y |-> c.y, value |-> fill[1]] >> ELSE << >>)
                 \o (IF outline # << >> /\ (M - 2 * width) * D <= N(c) * M
                        /\ N(c) * M <= (M + 2 * width) * D
                     THEN << [x |-> c.x, y |-> c.y, value |-> outline[1]] >> ELSE << >>)
    IN  Concat([k \in 1..Len(cells) |-> At(cells[k])], 1)

\* a neighbourhood whose ranges end one short
Neighbourhood_half_open(self, x, y, width, fill) ==
    LET cells == Cells(x - (width \div 2), x + (width \div 2) - 1,
                       y - (width \div 2), y + (width \div 2) - 1)
        At(c) ==
            IF 0 <= c.y /\ c.y < self.width /\ 0 <= c.x /\ c.x < self.height
               /\ fill # << >>
            THEN << [x |-> c.y, y |-> c.x, value |-> fill[1]] >> ELSE << >>
    IN  Concat([k \in 1..Len(cells) |-> At(cells[k])], 1)

\* the neighbourhood _Draw.line paints around (x, y)
Neighbourhood(self, x, y, width, fill) ==
    LET cells == Cells(x - (width \div 2), x + (width \div 2),
                       y - (width \div 2), y + (width \div 2))
        \* the loop over ix is the outer one: a cell's y is ix, its x is iy
        At(c) ==
            IF 0 <= c.y /\ c.y < self.width /\ 0 <= c.x /\ c.x < self.height
               /\ fill # << >>
            THEN << [x |-> c.y, y |-> c.x, value |-> fill[1]] >> ELSE << >>
    IN  Concat([k \in 1..Len(cells) |-> At(cells[k])], 1)

\* a pass that moves along one axis only: the second test is an elif
Advance_one_axis(x, y, x1, y1, err, p) ==
    LET dx == Abs(x1 - p.x0)
        dy == -Abs(y1 - p.y0)
        sx == IF p.x0 < x1 THEN 1 ELSE -1
        sy == IF p.y0 < y1 THEN 1 ELSE -1
        e2 == 2 * err
    IN  [x |-> IF e2 >= dy THEN x + sx ELSE x,
         y |-> IF e2 < dy /\ e2 <= dx THEN y + sy ELSE y,
         err |-> err + (IF e2 >= dy THEN dy ELSE 0)
                     + (IF e2 < dy /\ e2 <= dx THEN dx ELSE 0)]

\* the end of a pass through the while loop of _Draw.line that did not
\* leave it: x, y and err after the two tests on e2
Advance(x, y, x1, y1, err, p) ==
    LET dx == Abs(x1 - p.x0)
        dy == -Abs(y1 - p.y0)
        sx == IF p.x0 < x1 THEN 1 ELSE -1
        sy == IF p.y0 < y1 THEN 1 ELSE -1
        e2 == 2 * err
    IN  [x |-> IF e2 >= dy THEN x + sx ELSE x,
         y |-> IF e2 <= dx THEN y + sy ELSE y,
         err |-> err + (IF e2 >= dy THEN dy ELSE 0) + (IF e2 <= dx THEN dx ELSE 0)]

RECURSIVE Walk(_, _, _, _, _, _, _)
\* the while loop of _Draw.line from (x, y) to (x1, y1), error term err
Walk(self, x, y, x1, y1, err, p) ==
    LET here == Neighbourhood(self, x, y, p.width, p.fill)
        nxt == Advance(x, y, x1, y1, err, p)
    IN  IF x = x1 /\ y = y1 THEN here
        ELSE here \o Walk(self, nxt.x, nxt.y, x1, y1, nxt.err, p)

\* one segment of _Draw.line
SegmentWrites(self, x0, y0, x1, y1, fill, width) ==
    Walk(self, x0, y0, x1, y1, Abs(x1 - x0) - Abs(y1 - y0),
         [x0 |-> x0, y0 |-> y0, fill |-> fill, width |-> Max(1, width)])

\* the writes of _Draw.line on a list of points
LineWrites(self, points, fill, width) ==
    Concat([k \in 1..(Len(points) - 1) |->
               SegmentWrites(self, points[k][1], points[k][2],
                             points[k + 1][1], points[k + 1][2], fill, width)], 1)

\* a rectangle whose fill leaves out the right and the bottom edge of the box
RectangleWrites_half_open(self, x0, y0, x1, y1, fill, outline, width) ==
    LET cells == Cells(y0, y1 - 1, x0, x1 - 1)
        At(c) ==
            IF 0 <= c.y /\ c.y < self.height /\ 0 <= c.x /\ c.x < self.width
            THEN << [x |-> c.x, y |-> c.y, value |-> fill[1]] >> ELSE << >>
    IN  (IF fill # << >> THEN Concat([k \in 1..Len(cells) |-> At(cells[k])], 1)
         ELSE << >>)
        \o (IF outline # << >>
            THEN SegmentWrites(self, x0, y0, x1, y0, outline, width)
                 \o SegmentWrites(self, x1, y0, x1, y1, outline, width)
                 \o SegmentWrites(self, x0, y1, x1, y1, outline, width)
                 \o SegmentWrites(self, x0, y0, x0, y1, outline, width)
            ELSE << >>)

\* the writes of _Draw.rectangle: the fill, then the four sides of the outline
RectangleWrites(self, x0, y0, x1, y1, fill, outline, width) ==
    LET cells == Cells(y0, y1, x0, x1)
        At(c) ==
            IF 0 <= c.y /\ c.y < self.height /\ 0 <= c.x /\ c.x < self.width
            THEN << [x |-> c.x, y |-> c.y, value |-> fill[1]] >> ELSE << >>
    IN  (IF fill # << >> THEN Concat([k \in 1..Len(cells) |-> At(cells[k])], 1)
         ELSE << >>)
        \o (IF outline # << >>
            THEN SegmentWrites(self, x0, y0, x1, y0, outline, width)
                 \o SegmentWrites(self, x1, y0, x1, y1, outline, width)
                 \o SegmentWrites(self, x0, y1, x1, y1, outline, width)
                 \o SegmentWrites(self, x0, y0, x0, y1, outline, width)
            ELSE << >>)

\* the writes of _Draw.text with a font of the given size
TextWrites(self, x, y, text_len, size, fill) ==
    LET bbox == getbbox(size, text_len)
        cells == Cells(y, y + (bbox[4] - bbox[2]) - 1, x, x + (bbox[3] - bbox[1]) - 1)
        At(c) ==
            IF 0 <= c.y /\ c.y < self.height /\ 0 <= c.x /\ c.x < self.width
               /\ fill # << >>
            THEN << [x |-> c.x, y |-> c.y, value |-> fill[1]] >> ELSE << >>
    IN  Concat([k \in 1..Len(cells) |-> At(cells[k])], 1)

\* _Draw.ellipse(box, fill, outline, width)
ellipse(hp, self, x0, y0, x1, y1, fill, outline, width) ==
    PutAll(hp, self, EllipseWrites(self, x0, y0, x1, y1, fill, outline, width), 1)

\* _Draw.rectangle(box, fill, outline, width)
rectangle(hp, self, x0, y0, x1, y1, fill, outline, width) ==
    PutAll(hp, self, RectangleWrites(self, x0, y0, x1, y1, fill, outline, width), 1)

\* _Draw.line(coordinates, fill, width).  A sequence of four elements is read
\* as x0, y0, x1, y1: four points are four tuples where numbers are expected.
line(hp, self, coordinates, fill, width) ==
    IF coordinates.flat
    THEN IF Len(coordinates.seq) = 4
         THEN PutAll(hp, self,
                     LineWrites(self, << << coordinates.seq[1], coordinates.seq[2] >>,
                                        << coordinates.seq[3], coordinates.seq[4] >> >>,
                                fill, width), 1)
         ELSE IF Len(coordinates.seq) < 2
         THEN [err |-> NoError, heap |-> hp, targets |-> {}]
         ELSE [err |-> TypeError, heap |-> hp, targets |-> {}]
    ELSE IF Len(coordinates.seq) = 4
    THEN [err |-> TypeError, heap |-> hp, targets |-> {}]
    ELSE PutAll(hp, self, LineWrites(self, coordinates.seq, fill, width), 1)

\* _Draw.text(position, text, font=ImageFont(size), fill)
text(hp, self, x, y, text_len, size, fill) ==
    PutAll(hp, self, TextWrites(self, x, y, text_len, size, fill), 1)

----------------------------------------------------------------------------
(* ImageStat.Stat.  No mask (mask=None) is the empty sequence, a mask m is  *)
(* << m >>.  The mean, a quotient of integers, is the pair of its numerator *)
(* and denominator; 0.0 is 0 over 1.                                        *)

MaskError == "ValueError: Mask must match image dimensions"

RECURSIVE SumRange(_, _, _)
\* sum(values[a .. b])
SumRange(values, a, b) ==
    IF a > b THEN 0
    ELSE IF a = b THEN values[a]
    ELSE SumRange(values, a, (a + b) \div 2) + SumRange(values, (a + b) \div 2 + 1, b)

\* self.count and self.mean of the values collected
Moments(values) ==
    [count |-> Len(values),
     mean |-> IF Len(values) > 0
              THEN [num |-> SumRange(values, 1, Len(values)), den |-> Len(values)]
              ELSE [num |-> 0, den |-> 1]]

NoMoments == [count |-> 0, mean |-> [num |-> 0, den |-> 1]]

\* a Stat whose mean divides by the number of pixels of the image
Stat_all_pixels(hp, image, mask) ==
    IF mask # << >> /\ (mask[1].width # image.width \/ mask[1].height # image.height)
    THEN [err |-> MaskError, value |-> NoMoments]
    ELSE IF mask = << >>
    THEN [err |-> NoError, value |-> Moments(Concat(Grid(hp, image), 1))]
    ELSE LET cells == Cells(0, image.height - 1, 0, image.width - 1)
             m == [k \in 1..Len(cells) |-> getpixel(hp, mask[1], cells[k].x, cells[k].y)]
             v == [k \in 1..Len(cells) |-> getpixel(hp, image, cells[k].x, cells[k].y)]
             values == Concat([k \in 1..Len(cells) |->
                                 IF m[k].value # 0 THEN << v[k].value >> ELSE << >>], 1)
         IN  IF \E k \in 1..Len(cells) :
                    m[k].err # NoError \/ (m[k].value # 0 /\ v[k].err # NoError)
             THEN [err |-> IndexError, value |-> NoMoments]
             ELSE [err |-> NoError,
                   value |-> [count |-> Len(values),
                              mean |-> IF Len(values) > 0
                                       THEN [num |-> SumRange(values, 1, Len(values)),
                                             den |-> Len(cells)]
                                       ELSE [num |-> 0, den |-> 1]]]

\* ImageStat.Stat(image, mask)
Stat(hp, image, mask) ==
    IF mask # << >> /\ (mask[1].width # image.width \/ mask[1].height # image.height)
    THEN [err |-> MaskError, value |-> NoMoments]
    ELSE IF mask = << >>
    THEN [err |-> NoError, value |-> Moments(Concat(Grid(hp, image), 1))]
    ELSE LET cells == Cells(0, image.height - 1, 0, image.width - 1)
             m == [k \in 1..Len(cells) |-> getpixel(hp, mask[1], cells[k].x, cells[k].y)]
             v == [k \in 1..Len(cells) |-> getpixel(hp, image, cells[k].x, cells[k].y)]
             values == Concat([k \in 1..Len(cells) |->
                                 IF m[k].value # 0 THEN << v[k].value >> ELSE << >>], 1)
         IN  IF \E k \in 1..Len(cells) :
                    m[k].err # NoError \/ (m[k].value # 0 /\ v[k].err # NoError)
             THEN [err |-> IndexError, value |-> NoMoments]
             ELSE [err |-> NoError, value |-> Moments(values)]

----------------------------------------------------------------------------
(* omr.evaluator.  Millimetres are integers, the threshold is the quotient *)
(* of two integers [num, den] with den > 0; the products and quotients of  *)
(* evaluate() are then rationals, rounded and compared exactly.            *)

\* round(n / d) for d > 0: to the nearest integer, a half to the even one
RoundHalfEven(n, d) ==
    LET q == n \div d
        r == n - q * d
    IN  IF 2 * r < d THEN q
        ELSE IF 2 * r > d THEN q + 1
        ELSE IF q % 2 = 0 THEN q ELSE q + 1

\* Bubble.key
key(bubble) == << bubble.question_id, bubble.option_id >>

\* the box evaluate() crops for a bubble: (x_min, y_min, x_max, y_max)
RegionBox(template_obj, width_px, height_px, bubble) ==
    LET cx == RoundHalfEven(bubble.center_x_mm * width_px, template_obj.page_width_mm)
        cy == RoundHalfEven(bubble.center_y_mm * height_px, template_obj.page_height_mm)
        radius_x == Max(1, RoundHalfEven(bubble.radius_mm * width_px,
                                         template_obj.page_width_mm))
        radius_y == Max(1, RoundHalfEven(bubble.radius_mm * height_px,
                                         template_obj.page_height_mm))
    IN  << Max(0, cx - radius_x), Max(0, cy - radius_y),
           Min(width_px, cx + radius_x + 1), Min(height_px, cy + radius_y + 1) >>

\* the one value of a set of one value
Only(S) == CHOOSE v \in S : TRUE

\* a comparison that also reports a mean equal to the threshold
Below_or_equal(mean_value, threshold) ==
    mean_value.num * threshold.den <= threshold.num * 255 * mean_value.den

\* (mean_value / 255.0) < threshold
Below(mean_value, threshold) ==
    mean_value.num * threshold.den < threshold.num * 255 * mean_value.den

\* the outcome for a region and its painted mask, from ImageStat.Stat on
GradeMasked(hp, region, mask, threshold) ==
    Only({ IF stat.err # NoError THEN [err |-> stat.err, filled |-> FALSE]
           ELSE [err |-> NoError,
                 filled |-> Below(IF stat.value.count # 0 THEN stat.value.mean
                                  ELSE [num |-> 255, den |-> 1], threshold)] :
           stat \in { Stat(hp, region, << mask >>) } })

\* the outcome for a cropped region, from Image.new("1", ...) on
GradeRegion(region, threshold) ==
    IF region.image.width = 0 /\ region.image.height = 0
    THEN [err |-> NoError, filled |-> FALSE]
    ELSE Only({ Only({ IF draw.err # NoError THEN [err |-> draw.err, filled |-> FALSE]
                       ELSE GradeMasked(draw.heap, region.image, mask.image, threshold) :
                       draw \in { PutAll(mask.heap, mask.image,
                                         EllipseWrites(mask.image, 0, 0,
                                                       region.image.width - 1,
                                                       region.image.height - 1,
                                                       << 1 >>, << >>, 1), 1) } }) :
                mask \in { new(region.heap, "1", region.image.width,
                               region.image.height, 0) } })

\* the body of the loop of evaluate(): the outcome for one bubble
Grade(hp, grayscale, template_obj, bubble, threshold) ==
    Only({ GradeRegion(region, threshold) :
           region \in { Only({ crop(hp, grayscale, box[1], box[2], box[3], box[4]) :
                               box \in { RegionBox(template_obj, grayscale.width,
                                                   grayscale.height, bubble) } }) } })

\* the outcomes of the bubbles as the results dictionary holds them: a later
\* bubble replaces the entry of an earlier one with the same key
Results(bubbles, graded) ==
    LET Last(q) == CHOOSE k \in 1..Len(bubbles) :
                      /\ key(bubbles[k]) = q
                      /\ \A j \in (k + 1)..Len(bubbles) : key(bubbles[j]) # q
    IN  IF \E k \in 1..Len(bubbles) : graded[k].err # NoError
        THEN [err |-> graded[CHOOSE k \in 1..Len(bubbles) :
                               /\ graded[k].err # NoError
                               /\ \A j \in 1..(k - 1) : graded[j].err = NoError].err,
              results |-> << >>]
        ELSE [err |-> NoError,
              results |-> [q \in { key(bubbles[k]) : k \in 1..Len(bubbles) } |->
                             graded[Last(q)].filled]]

\* evaluate(template_obj, image, threshold)
evaluate(hp, template_obj, image, threshold) ==
    Only({ IF grayscale.err # NoError THEN [err |-> grayscale.err, results |-> << >>]
           ELSE Only({ Results(template_obj.bubbles, graded) :
                       graded \in { [k \in 1..Len(template_obj.bubbles) |->
                                       Grade(grayscale.heap, grayscale.image, template_obj,
                                             template_obj.bubbles[k], threshold)]
                                     @@ << >> } }) :
           grayscale \in { convert(hp, image, "L") } })

----------------------------------------------------------------------------
(* The graymap codec.  Text is the sequence of its character codes. *)

FormatError == "ValueError: Unsupported image format"
MaxValueError == "ValueError: Unsupported max value"
PixelCountError == "ValueError: Unexpected pixel count"
LiteralError == "ValueError: invalid literal for int()"
UnpackError == "ValueError: wrong number of values to unpack"
UnicodeDecodeError == "UnicodeDecodeError"

\* "P2"
P2 == << 80, 50 >>
\* "255"
Text255 == << 50, 53, 53 >>
NL == << 10 >>
SP == << 32 >>
\* the characters str.strip() and str.split() treat as white space
Whitespace == {9, 10, 11, 12, 13, 28, 29, 30, 31, 32}

RECURSIVE Digits(_)
\* str(n) for n >= 0
Digits(n) == IF n < 10 THEN << 48 + n >> ELSE Digits(n \div 10) \o << 48 + (n % 10) >>

\* str(n)
Str(n) == IF n < 0 THEN << 45 >> \o Digits(-n) ELSE Digits(n)

RECURSIVE Join(_, _)
\* " ".join(str(_clamp_to_byte(value)) for value in row), from the i-th value on
Join(row, i) ==
    IF i > Len(row) THEN << >>
    ELSE Str(clamp_to_byte(row[i])) \o (IF i < Len(row) THEN SP ELSE << >>)
         \o Join(row, i + 1)

RECURSIVE RowLines_joined(_, _)
\* rows written one after the other without the line feed between them
RowLines_joined(rows, i) ==
    IF i > Len(rows) THEN << >>
    ELSE Join(rows[i], 1) \o RowLines_joined(rows, i + 1)

RECURSIVE RowLines(_, _)
\* one line per row of self.pixels, from the i-th row on
RowLines(rows, i) ==
    IF i > Len(rows) THEN << >>
    ELSE Join(rows[i], 1) \o NL \o RowLines(rows, i + 1)

\* the text Image.save writes for a path that does not end in .png
save_graymap(hp, image) ==
    [err |-> NoError,
     data |-> P2 \o NL \o Str(image.width) \o SP \o Str(image.height) \o NL
              \o Text255 \o NL \o RowLines(Grid(hp, image), 1)]

RECURSIVE Newlines(_, _)
\* text mode reading: "\r\n" and "\r" become "\n"
Newlines(s, i) ==
    IF i > Len(s) THEN << >>
    ELSE IF s[i] = 13
    THEN NL \o Newlines(s, IF i < Len(s) /\ s[i + 1] = 10 THEN i + 2 ELSE i + 1)
    ELSE << s[i] >> \o Newlines(s, i + 1)

RECURSIVE LineEnd(_, _)
\* handle.readline() at position p: the position of the last character read
LineEnd(s, p) ==
    IF p > Len(s) THEN Len(s)
    ELSE IF s[p] = 10 THEN p
    ELSE LineEnd(s, p + 1)

RECURSIVE Strip(_)
\* str.strip()
Strip(s) ==
    IF s = << >> THEN s
    ELSE IF s[1] \in Whitespace THEN Strip(Tail(s))
    ELSE IF s[Len(s)] \in Whitespace THEN Strip(SubSeq(s, 1, Len(s) - 1))
    ELSE s

RECURSIVE Split(_, _, _)
\* str.split(): the runs of characters that are not white space
Split(s, i, word) ==
    IF i > Len(s) THEN (IF word = << >> THEN << >> ELSE << word >>)
    ELSE IF s[i] \in Whitespace
    THEN (IF word = << >> THEN << >> ELSE << word >>) \o Split(s, i + 1, << >>)
    ELSE Split(s, i + 1, Append(word, s[i]))

\* whether int() accepts the token: an optional sign, then decimal digits
IsInt(t) ==
    LET body == IF t # << >> /\ t[1] \in {43, 45} THEN Tail(t) ELSE t
    IN  body # << >> /\ \A k \in 1..Len(body) : body[k] \in 48..57

RECURSIVE DigitsValue(_, _, _)
DigitsValue(t, i, acc) ==
    IF i > Len(t) THEN acc ELSE DigitsValue(t, i + 1, 10 * acc + (t[i] - 48))

\* int(token), for a token IsInt accepts
ParseInt(t) ==
    IF t[1] = 45 THEN -DigitsValue(Tail(t), 1, 0)
    ELSE IF t[1] = 43 THEN DigitsValue(Tail(t), 1, 0)
    ELSE DigitsValue(t, 1, 0)

\* rows taken down the columns of the grid instead of along its rows
Reshape_by_column(data, width, height) ==
    [i \in Range(height) |->
        [j \in Range(width) |-> data[(j - 1) * height + i]]]

\* pixels = [data[i * width:(i + 1) * width] for i in range(height)]
Reshape(data, width, height) ==
    [i \in Range(height) |-> PySlice(data, (i - 1) * width, i * width)]

\* the rest of open(): the file read as text from its start
open_graymap(bytes) ==
    LET s == Newlines(bytes, 1)
        e1 == LineEnd(s, 1)
        header == Strip(SubSeq(s, 1, e1))
        \* the while loop that skips comment lines: the end of the dims line
        RECURSIVE DimsEnd(_)
        DimsEnd(p) ==
            LET e == LineEnd(s, p)
                l == Strip(SubSeq(s, p, e))
            IN  IF l # << >> /\ l[1] = 35 THEN DimsEnd(e + 1) ELSE e
        RECURSIVE DimsStart(_)
        DimsStart(p) ==
            LET e == LineEnd(s, p)
                l == Strip(SubSeq(s, p, e))
            IN  IF l # << >> /\ l[1] = 35 THEN DimsStart(e + 1) ELSE p
        e2 == DimsEnd(e1 + 1)
        dims == Split(SubSeq(s, DimsStart(e1 + 1), e2), 1, << >>)
        e3 == LineEnd(s, e2 + 1)
        max_value == Strip(SubSeq(s, e2 + 1, e3))
        words == Split(SubSeq(s, e3 + 1, Len(s)), 1, << >>)
        width == ParseInt(dims[1])
        height == ParseInt(dims[2])
        data == [k \in 1..Len(words) |-> ParseInt(words[k])]
    IN  IF \E k \in 1..Len(bytes) : bytes[k] >= 128 THEN Raise(UnicodeDecodeError)
        ELSE IF header # P2 THEN Raise(FormatError)
        ELSE IF \E k \in 1..Min(3, Len(dims)) : ~IsInt(dims[k])
        THEN Raise(LiteralError)
        ELSE IF Len(dims) # 2 THEN Raise(UnpackError)
        ELSE IF ~IsInt(max_value) THEN Raise(LiteralError)
        ELSE IF ParseInt(max_value) # 255 THEN Raise(MaxValueError)
        ELSE IF \E k \in 1..Len(words) : ~IsInt(words[k]) THEN Raise(LiteralError)
        ELSE IF Len(data) # width * height THEN Raise(PixelCountError)
        ELSE [err |-> NoError, width |-> width, height |-> height,
              rows |-> Reshape(data, width, height)]

----------------------------------------------------------------------------
(* Files *)

\* os.path.splitext(path): a path is its root and its extension
Paths == { [root |-> "sheet", ext |-> e] : e \in {".png", ".pgm"} }

PngPath == [root |-> "sheet", ext |-> ".png"]
PgmPath == [root |-> "sheet", ext |-> ".pgm"]

\* ext.lower()
Lower(ext) == IF ext \in {".png", ".PNG", ".Png"} THEN ".png" ELSE ext

NoFile == [exists |-> FALSE, data |-> << >>]

\* how the bytes of a file came to be: written by save() from an Image (whose
\* fields and grid at that moment are kept, with the bytes save() wrote), or
\* supplied chunk by chunk from outside (each chunk with its type, payload,
\* whether its CRC is right, and how many of its bytes arrived); and the
\* positions of the bytes changed since
NotMade ==
    [by |-> "", mode |-> "", width |-> 0, height |-> 0, grid |-> << >>,
     written |-> << >>, chunks |-> << >>, damage |-> << >>]

\* Image.save(path): the bytes the file holds afterwards.  open(path, "wb")
\* creates the file, so what was written before an exception stays in it.
save(hp, self, path) ==
    IF Lower(path.ext) = ".png" THEN save_png(hp, self) ELSE save_graymap(hp, self)

\* a sniff that compares the first four bytes only
open_sniff_4(bytes) ==
    IF Read(bytes, 1, 4) = SubSeq(PNG_SIGNATURE, 1, 4)
    THEN open_png(bytes)
    ELSE open_graymap(bytes)

\* open(path) on a file holding bytes
open(bytes) ==
    IF Read(bytes, 1, Len(PNG_SIGNATURE)) = PNG_SIGNATURE THEN open_png(bytes)
    ELSE open_graymap(bytes)

----------------------------------------------------------------------------
(* The state machine *)

\* the path of a call that names no file
NoPath == [root |-> "", ext |-> ""]

NoResult ==
    [op |-> "", img |-> 0, args |-> << >>, path |-> NoPath, err |-> NoError,
     value |-> 0, out |-> 0, changed |-> FALSE, targets |-> {}]

Dims == 0..MaxDim
Handles == 1..Len(images)

Init ==
    /\ heap = << >>
    /\ images = << >>
    /\ origin = << >>
    /\ fs = [p \in Paths |-> NoFile]
    /\ made = [p \in Paths |-> NotMade]
    /\ result = NoResult
    /\ nwrites = 0

\* a call that builds an Image: on success the caller holds one more Image
\* (the call is evaluated once: r is bound to its outcome)
Built(op, i, args, path, outcome) ==
    \E r \in { outcome } :
        /\ heap' = r.heap
        /\ images' = IF r.err = NoError THEN Append(images, r.image) ELSE images
        /\ origin' = IF r.err = NoError THEN Append(origin, [op |-> op, src |-> i])
                     ELSE origin
        /\ result' = [NoResult EXCEPT !.op = op, !.img = i, !.args = args,
                                      !.path = path, !.err = r.err,
                                      !.out = IF r.err = NoError THEN Len(images) + 1
                                              ELSE 0]

New(mode, width, height, color) ==
    /\ Len(images) < MaxImages
    /\ Built("new", 0, << width, height, color >>, NoPath,
             new(heap, mode, width, height, color))
    /\ UNCHANGED << fs, made, nwrites >>

Convert(i, mode) ==
    /\ Len(images) < MaxImages
    /\ Built("convert", i, << >>, NoPath, convert(heap, images[i], mode))
    /\ UNCHANGED << fs, made, nwrites >>

Crop(i, left, upper, right, lower) ==
    /\ Len(images) < MaxImages
    /\ Built("crop", i, << left, upper, right, lower >>, NoPath,
             crop(heap, images[i], left, upper, right, lower))
    /\ UNCHANGED << fs, made, nwrites >>

GetPixel(i, x, y) ==
    /\ \E r \in { getpixel(heap, images[i], x, y) } :
           result' = [NoResult EXCEPT !.op = "getpixel", !.img = i,
                                      !.args = << x, y >>, !.err = r.err,
                                      !.value = r.value]
    /\ UNCHANGED << heap, images, origin, fs, made, nwrites >>

\* a call that writes pixels of Image i
Wrote(op, i, args, outcome) ==
    /\ nwrites < MaxWrites
    /\ nwrites' = nwrites + 1
    /\ \E r \in { outcome } :
          /\ heap' = r.heap
          /\ result' = [NoResult EXCEPT !.op = op, !.img = i, !.args = args,
                                        !.err = r.err, !.changed = (r.heap # heap),
                                        !.targets = r.targets]
    /\ UNCHANGED << images, origin, fs, made >>

PutPixel(i, x, y, value) ==
    Wrote("putpixel", i, << x, y, value >>,
          PutAll(heap, images[i], << [x |-> x, y |-> y, value |-> value] >>, 1))

DrawEllipse(i, x0, y0, x1, y1, fill, outline, width) ==
    Wrote("ellipse", i, << x0, y0, x1, y1, width >>,
          ellipse(heap, images[i], x0, y0, x1, y1, fill, outline, width))

DrawRectangle(i, x0, y0, x1, y1, fill, outline, width) ==
    Wrote("rectangle", i, << x0, y0, x1, y1, width, fill, outline >>,
          rectangle(heap, images[i], x0, y0, x1, y1, fill, outline, width))

DrawLine(i, coordinates, fill, width) ==
    Wrote("line", i, << coordinates.flat, coordinates.seq, width >>,
          line(heap, images[i], coordinates, fill, width))

DrawText(i, x, y, text_len, size, fill) ==
    Wrote("text", i, << x, y, text_len, size >>,
          text(heap, images[i], x, y, text_len, size, fill))

\* line() with the four numbers x0, y0, x1, y1 enters its while loop: while
\* it is inside, result.op is "walking" and result.args holds the loop's
\* x, y and err, the end point and the values fixed before the loop
StartLine(i, x0, y0, x1, y1, fill, width) ==
    /\ result.op = ""
    /\ result' = [NoResult EXCEPT
                    !.op = "walking", !.img = i,
                    !.args = << [x |-> x0, y |-> y0, x1 |-> x1, y1 |-> y1,
                                 err |-> Abs(x1 - x0) - Abs(y1 - y0),
                                 p |-> [x0 |-> x0, y0 |-> y0, fill |-> fill,
                                        width |-> Max(1, width)]] >>]
    /\ UNCHANGED << heap, images, origin, fs, made, nwrites >>

\* one pass through the while loop: the neighbourhood is painted, then the
\* loop is left at the end point, or x, y and err move on
WalkPass ==
    /\ result.op = "walking"
    /\ \E w \in { result.args[1] } :
       \E r \in { PutAll(heap, images[result.img],
                         Neighbourhood(images[result.img], w.x, w.y, w.p.width, w.p.fill),
                         1) } :
       \E nxt \in { Advance(w.x, w.y, w.x1, w.y1, w.err, w.p) } :
          /\ heap' = r.heap
          /\ IF r.err # NoError \/ (w.x = w.x1 /\ w.y = w.y1)
             THEN /\ result' = [result EXCEPT !.op = "line", !.err = r.err,
                                              !.targets = @ \cup r.targets,
                                              !.changed = (@ \/ r.heap # heap)]
                  /\ nwrites' = nwrites + 1
             ELSE /\ result' = [result EXCEPT
                                  !.targets = @ \cup r.targets,
                                  !.changed = (@ \/ r.heap # heap),
                                  !.args = << [w EXCEPT !.x = nxt.x, !.y = nxt.y,
                                                        !.err = nxt.err] >>]
                  /\ nwrites' = nwrites
    /\ UNCHANGED << images, origin, fs, made >>

Save(i, path) ==
    /\ \E r \in { save(heap, images[i], path) } :
           /\ fs' = [fs EXCEPT ![path] = [exists |-> TRUE, data |-> r.data]]
           /\ made' = [made EXCEPT ![path] =
                          [NotMade EXCEPT !.by = "save", !.mode = images[i].mode,
                                          !.width = images[i].width,
                                          !.height = images[i].height,
                                          !.grid = Grid(heap, images[i]),
                                          !.written = r.data]]
           /\ result' = [NoResult EXCEPT !.op = "save", !.img = i, !.path = path,
                                         !.err = r.err]
    /\ UNCHANGED << heap, images, origin, nwrites >>

Open(path) ==
    /\ Len(images) < MaxImages
    /\ \E r \in { IF fs[path].exists THEN open(fs[path].data)
                    ELSE Raise(FileNotFoundError) } :
           Built("open", 0, << >>, path,
                 [err |-> r.err, heap |-> heap \o r.rows,
                  image |-> [mode |-> "L", width |-> r.width, height |-> r.height,
                             pixels |-> Fresh(heap, Len(r.rows))]])
    /\ UNCHANGED << fs, made, nwrites >>

\* the file at path has one byte changed from outside: the bits of mask are
\* flipped in the byte at position pos.  At most one byte of one file is
\* ever changed.
CorruptByte(path, pos, mask) ==
    /\ fs[path].exists
    /\ \A p \in Paths : made[p].damage = << >>
    /\ pos \in 1..Len(fs[path].data)
    /\ fs' = [fs EXCEPT ![path].data[pos] = XorByte(@, mask)]
    /\ made' = [made EXCEPT ![path].damage = << pos >>]
    /\ result' = [NoResult EXCEPT !.op = "damage", !.path = path]
    /\ UNCHANGED << heap, images, origin, nwrites >>

\* a chunk as it lies in a file: length, type, payload and CRC, the CRC
\* right or with its last bit flipped
ChunkBytes(chunk, crc_ok) ==
    LET whole == write_png_chunk(chunk.type, chunk.data)
    IN  IF crc_ok THEN whole
        ELSE [whole EXCEPT ![Len(whole)] = XorByte(@, 1)]

\* the decoder reads on after the chunks: each of them is whole, passes the
\* CRC test, is no IEND and, if an IHDR, is one the decoder supports
ReadsOn(chunks) ==
    \A k \in 1..Len(chunks) :
        /\ chunks[k].kept = 12 + Len(chunks[k].data)
        /\ chunks[k].crc_ok
        /\ chunks[k].type # IEND
        /\ chunks[k].type = IHDR =>
              /\ Len(chunks[k].data) = 13
              /\ SubSeq(chunks[k].data, 9, 13) = << 8, 0, 0, 0, 0 >>

\* someone else writes the first `kept` bytes of a chunk to the end of the
\* PNG file at path.  Nothing is written behind a chunk at which the decoder
\* stops reading.
WriteChunk(path, chunk, crc_ok, kept) ==
    /\ made[path].by = "outside"
    /\ Len(made[path].chunks) < MaxChunks
    /\ ReadsOn(made[path].chunks)
    /\ kept \in 1..(12 + Len(chunk.data))
    /\ fs' = [fs EXCEPT ![path].data = @ \o SubSeq(ChunkBytes(chunk, crc_ok), 1, kept)]
    /\ made' = [made EXCEPT ![path].chunks =
                    Append(@, [type |-> chunk.type, data |-> chunk.data,
                               crc_ok |-> crc_ok, kept |-> kept])]
    /\ result' = [NoResult EXCEPT !.op = "write", !.path = path]
    /\ UNCHANGED << heap, images, origin, nwrites >>

----------------------------------------------------------------------------
(* The life of Image objects: built, cropped, converted, written *)

\* indices passed to putpixel: first, last counted from the end, past the end
Coords == {-1, 0, MaxDim}
\* box coordinates passed to crop: before, inside and past the image
BoxCoords == {-1, 1, MaxDim + 1}
\* boxes passed to the drawing calls: one pixel, and more than the canvas
DrawBoxes == { << 0, 0, 0, 0 >>, << -1, -1, MaxDim, MaxDim >> }

Next ==
    \/ \E w \in Dims, h \in Dims : New("L", w, h, 0)
    \/ \E i \in Handles, m \in {"L", "RGB"} : Convert(i, m)
    \/ \E i \in Handles, l \in BoxCoords, u \in BoxCoords, r \in BoxCoords,
          b \in BoxCoords : Crop(i, l, u, r, b)
    \/ \E i \in Handles, x \in Coords, y \in Coords : PutPixel(i, x, y, 300)
    \/ \E i \in Handles, b \in DrawBoxes :
          \/ DrawEllipse(i, b[1], b[2], b[3], b[4], << 128 >>, << >>, 1)
          \/ DrawEllipse(i, b[1], b[2], b[3], b[4], << >>, << 128 >>, 1)
          \/ DrawRectangle(i, b[1], b[2], b[3], b[4], << 128 >>, << >>, 1)
          \/ DrawRectangle(i, b[1], b[2], b[3], b[4], << >>, << 128 >>, 2)
          \/ DrawLine(i, [flat |-> TRUE, seq |-> b], << 128 >>, 1)
          \/ DrawText(i, b[1], b[2], 2, 1, << 128 >>)

Spec == Init /\ [][Next]_vars

----------------------------------------------------------------------------
(* Pixel access on one Image, with indices before, inside and past it *)

\* indices passed to getpixel and putpixel
PixelCoords == (0 - MaxDim - 1)..(MaxDim + 1)

InitPixel ==
    /\ \E w \in Dims, h \in Dims :
          LET r == new(<< >>, "L", w, h, 0)
          IN  /\ heap = r.heap
              /\ images = << r.image >>
    /\ origin = << [op |-> "new", src |-> 0] >>
    /\ fs = [p \in Paths |-> NoFile]
    /\ made = [p \in Paths |-> NotMade]
    /\ result = NoResult
    /\ nwrites = 0

NextPixel ==
    \/ \E i \in Handles, x \in PixelCoords, y \in PixelCoords : GetPixel(i, x, y)
    \/ \E i \in Handles, x \in PixelCoords, y \in PixelCoords, v \in {7, 300} :
          PutPixel(i, x, y, v)

SpecPixel == InitPixel /\ [][NextPixel]_vars

----------------------------------------------------------------------------
(* An Image written to a file and read back *)

\* pixel values of the Images that are saved: below, inside and above a byte
Fills == {-1, 7, 300}
Spots == {0, 255, 1000}

\* Image.new(...) followed, on a non-empty Image, by putpixel((0, 0), v)
InitCodec ==
    /\ \E w \in Dims, h \in Dims, c \in Fills, v \in Spots :
          LET r == new(<< >>, "L", w, h, c)
              q == putpixel(r.heap, r.image, 0, 0, v)
          IN  /\ heap = IF q.err = NoError THEN q.heap ELSE r.heap
              /\ images = << r.image >>
    /\ origin = << [op |-> "new", src |-> 0] >>
    /\ fs = [p \in Paths |-> NoFile]
    /\ made = [p \in Paths |-> NotMade]
    /\ result = NoResult
    /\ nwrites = 0

NextCodec ==
    \/ \E i \in Handles, p \in Paths : Save(i, p)
    \/ \E p \in Paths : Open(p)

SpecCodec == InitCodec /\ [][NextCodec]_vars

----------------------------------------------------------------------------
(* A saved file with one byte changed, read back *)

\* the bits flipped in the changed byte: each single bit, and all of them
Masks == {1, 2, 4, 8, 16, 32, 64, 128, 255}

InitDamage ==
    /\ \E w \in Dims, h \in Dims :
          LET r == new(<< >>, "L", w, h, 7)
          IN  /\ heap = r.heap
              /\ images = << r.image >>
    /\ origin = << [op |-> "new", src |-> 0] >>
    /\ fs = [p \in Paths |-> NoFile]
    /\ made = [p \in Paths |-> NotMade]
    /\ result = NoResult
    /\ nwrites = 0

\* the PNG file is saved, then one of its bytes is changed, and it is read
NextDamage ==
    \/ \E i \in Handles : made[PngPath].damage = << >> /\ Save(i, PngPath)
    \/ \E pos \in 1..Len(fs[PngPath].data), m \in Masks :
          CorruptByte(PngPath, pos, m)
    \/ Open(PngPath)

SpecDamage == InitDamage /\ [][NextDamage]_vars

----------------------------------------------------------------------------
(* A PNG file written by someone else, chunk by chunk, and read *)

\* the largest (width + 1) * height of an Image of the model
MaxRaw == (MaxDim + 1) * MaxDim

Zeros(n) == [k \in 1..n |-> 0]

\* IHDR chunks the decoder supports, of every width and height
GoodHeaders ==
    { [type |-> IHDR, data |-> PackIHDR(w, h)] : w \in Dims, h \in Dims }

\* IHDR chunks with one of bit depth, colour type, compression, filter
\* method and interlace not the supported value, and one a byte short
BadHeaders ==
    { [type |-> IHDR, data |-> PackU32(1) \o PackU32(1) \o f] :
        f \in { << 16, 0, 0, 0, 0 >>, << 8, 2, 0, 0, 0 >>, << 8, 0, 1, 0, 0 >>,
                << 8, 0, 0, 1, 0 >>, << 8, 0, 0, 0, 1 >>, << 8, 0, 0, 0 >> } }

\* IDAT chunks holding the zlib stream of n bytes 0
DataChunks == { [type |-> IDAT, data |-> zlib_compress(Zeros(n))] : n \in 0..MaxRaw }

\* a chunk of a type the decoder does not know: tEXt
TextChunk == [type |-> << 116, 69, 88, 116 >>, data |-> << 0 >>]

EndChunk == [type |-> IEND, data |-> << >>]

\* the chunks that are also written with a wrong CRC, or only in part
Samples ==
    { EndChunk, TextChunk,
      [type |-> IHDR, data |-> PackIHDR(1, 1)],
      [type |-> IDAT, data |-> zlib_compress(Zeros(2))] }

\* the lengths at which a chunk with n bytes of payload is cut: inside its
\* length, its type, its payload and its CRC
Cuts(n) == { 2, 6, 11 + n } \cup (IF n > 0 THEN { 8 + (n \div 2) } ELSE {})

InitPng ==
    /\ heap = << >>
    /\ images = << >>
    /\ origin = << >>
    /\ fs = [p \in Paths |->
                IF p = PngPath THEN [exists |-> TRUE, data |-> PNG_SIGNATURE]
                ELSE NoFile]
    /\ made = [p \in Paths |->
                  IF p = PngPath THEN [NotMade EXCEPT !.by = "outside"] ELSE NotMade]
    /\ result = NoResult
    /\ nwrites = 0

NextPng ==
    \/ \E c \in GoodHeaders \cup BadHeaders \cup DataChunks \cup { TextChunk, EndChunk } :
          WriteChunk(PngPath, c, TRUE, 12 + Len(c.data))
    \/ \E c \in Samples : WriteChunk(PngPath, c, FALSE, 12 + Len(c.data))
    \/ \E c \in Samples : \E n \in Cuts(Len(c.data)) : WriteChunk(PngPath, c, TRUE, n)
    \/ Open(PngPath)

SpecPng == InitPng /\ [][NextPng]_vars

----------------------------------------------------------------------------
(* A complete PNG file with data of the announced length, read *)

\* the bytes of the decompressed data: filter types and pixel values
ScanBytes == {0, 1, 200}

\* the three chunks of a file that announces width w and height h
ScanChunks(w, h, raw) ==
    << [type |-> IHDR, data |-> PackIHDR(w, h), crc_ok |-> TRUE, kept |-> 25],
       [type |-> IDAT, data |-> zlib_compress(raw), crc_ok |-> TRUE,
        kept |-> 12 + Len(zlib_compress(raw))],
       [type |-> IEND, data |-> << >>, crc_ok |-> TRUE, kept |-> 12] >>

InitScan ==
    /\ heap = << >>
    /\ images = << >>
    /\ origin = << >>
    /\ \E w \in Dims, h \in Dims :
          \E raw \in [1..((w + 1) * h) -> ScanBytes] :
              \E cs \in { ScanChunks(w, h, raw) } :
                  /\ fs = [p \in Paths |->
                              IF p = PngPath
                              THEN [exists |-> TRUE,
                                    data |-> PNG_SIGNATURE
                                             \o ChunkBytes(cs[1], TRUE)
                                             \o ChunkBytes(cs[2], TRUE)
                                             \o ChunkBytes(cs[3], TRUE)]
                              ELSE NoFile]
                  /\ made = [p \in Paths |->
                                IF p = PngPath
                                THEN [NotMade EXCEPT !.by = "outside", !.chunks = cs]
                                ELSE NotMade]
    /\ result = NoResult
    /\ nwrites = 0

NextScan == Open(PngPath)

SpecScan == InitScan /\ [][NextScan]_vars

----------------------------------------------------------------------------
(* Files that were not written by save(), read *)

\* first lines: "P2", "P2 ", " P2", "P5", "p2" and the empty line
TextHeads == { P2, P2 \o SP, SP \o P2, << 80, 53 >>, << 112, 50 >>, << >> }

\* comment lines after the first line: none, "#c", and " #" before "#c"
TextComments ==
    { << >>, << 35, 99 >> \o NL, SP \o << 35 >> \o NL \o << 35, 99 >> \o NL }

\* max-value lines: "255", "0255", "+255", "254", "a" and the empty line
TextMaxima ==
    { Text255, << 48 >> \o Text255, << 43 >> \o Text255, << 50, 53, 52 >>,
      << 97 >>, << >> }

\* the words of a line: decimal numbers, then "x" if junk
Words(wl) ==
    [k \in 1..Len(wl.vals) |-> Str(wl.vals[k])]
    \o (IF wl.junk THEN << << 120 >> >> ELSE << >>)

RECURSIVE JoinWith(_, _, _)
\* the words from the i-th on, sep between them
JoinWith(words, sep, i) ==
    IF i > Len(words) THEN << >>
    ELSE words[i] \o (IF i < Len(words) THEN sep ELSE << >>)
         \o JoinWith(words, sep, i + 1)

\* dimension lines: two numbers, also negative ones, or not two words
TextDims ==
    { [vals |-> v, junk |-> FALSE] :
        v \in { << w, h >> : w \in Dims, h \in Dims }
               \cup { << -1, -1 >>, << -1, 0 >>, << 1 >>, << 1, 1, 1 >>, << >> } }
    \cup { [vals |-> << 1 >>, junk |-> TRUE] }

\* the numbers after the max-value line: 1, 2, 3, ... or -1, 150, 301, ...
TextData ==
    { [vals |-> [k \in 1..n |-> b[1] + b[2] * (k - 1)], junk |-> j] :
        n \in 0..(MaxDim * MaxDim + 1), b \in { << 1, 1 >>, << -1, 151 >> },
        j \in BOOLEAN }

\* how a text file is put together
TextParts ==
    { [kind |-> "text", head |-> h, comments |-> c,
       dims |-> [vals |-> d, junk |-> FALSE], max |-> Text255,
       data |-> [vals |-> t, junk |-> FALSE], sep |-> SP] :
        h \in TextHeads, c \in TextComments,
        d \in { << 1, 1 >>, << 2, 1 >> }, t \in { << 1 >>, << 1, 2 >> } }
    \cup
    { [kind |-> "text", head |-> P2, comments |-> << >>, dims |-> d, max |-> m,
       data |-> t, sep |-> sp] :
        d \in TextDims, m \in { Text255, << 48 >> \o Text255 }, t \in TextData,
        sp \in { SP, NL } }
    \cup
    { [kind |-> "text", head |-> P2, comments |-> << >>,
       dims |-> [vals |-> << 1, 1 >>, junk |-> FALSE], max |-> m,
       data |-> [vals |-> t, junk |-> FALSE], sep |-> SP] :
        m \in TextMaxima, t \in { << 1 >>, << 1, 2 >> } }

\* the bytes of a text file
TextBytes(parts) ==
    parts.head \o NL \o parts.comments \o JoinWith(Words(parts.dims), SP, 1) \o NL
    \o parts.max \o NL \o JoinWith(Words(parts.data), parts.sep, 1) \o NL

\* the chunks of a PNG file of one pixel
PixelChunks ==
    LET cs == ScanChunks(1, 1, << 0, 7 >>)
    IN  ChunkBytes(cs[1], TRUE) \o ChunkBytes(cs[2], TRUE) \o ChunkBytes(cs[3], TRUE)

NoParts ==
    [kind |-> "", head |-> << >>, comments |-> << >>,
     dims |-> [vals |-> << >>, junk |-> FALSE], max |-> << >>,
     data |-> [vals |-> << >>, junk |-> FALSE], sep |-> << >>]

\* files given to open(): what they are made of, and their bytes.  Text
\* files, a PNG file, the PNG file with one byte of its signature changed,
\* the beginnings of the signature, and a text file after the signature.
GivenFiles ==
    { [parts |-> t, bytes |-> TextBytes(t)] : t \in TextParts }
    \cup { [parts |-> [NoParts EXCEPT !.kind = "png"],
            bytes |-> PNG_SIGNATURE \o PixelChunks] }
    \cup { [parts |-> [NoParts EXCEPT !.kind = "png"],
            bytes |-> [PNG_SIGNATURE EXCEPT ![k] = 32] \o PixelChunks] : k \in 1..8 }
    \cup { [parts |-> [NoParts EXCEPT !.kind = "junk"],
            bytes |-> SubSeq(PNG_SIGNATURE, 1, k)] : k \in 0..8 }
    \cup { [parts |-> [NoParts EXCEPT !.kind = "junk"],
            bytes |-> PNG_SIGNATURE \o TextBytes(t)] :
            t \in { u \in TextParts : u.head = P2 /\ u.comments # << >> } }

InitRead ==
    /\ heap = << >>
    /\ images = << >>
    /\ origin = << >>
    /\ \E f \in GivenFiles :
          /\ fs = [p \in Paths |->
                      IF p = PgmPath THEN [exists |-> TRUE, data |-> f.bytes]
                      ELSE NoFile]
          /\ made = [p \in Paths |->
                        IF p = PgmPath
                        THEN [NotMade EXCEPT !.by = "outside", !.chunks = f.parts]
                        ELSE NotMade]
    /\ result = NoResult
    /\ nwrites = 0

NextRead == Open(PgmPath)

SpecRead == InitRead /\ [][NextRead]_vars

----------------------------------------------------------------------------
(* An Image and its crops, saved *)

NextSave ==
    \/ \E i \in Handles :
          \E l \in BoxCoords, u \in BoxCoords, r \in BoxCoords, d \in BoxCoords :
              Crop(i, l, u, r, d)
    \/ \E i \in Handles, p \in Paths : Save(i, p)

SpecSave == InitPixel /\ [][NextSave]_vars

----------------------------------------------------------------------------
(* One drawing call on a blank canvas, with coordinates on and off it *)

\* canvases: empty, flat, tall, and one that holds every point up to Far
CanvasSizes == { << 0, 0 >>, << MaxDim, 1 >>, << 1, MaxDim >>, << Far + 1, Far + 1 >> }

LineCoords == { 0 - Far, -1, 0, Far \div 2, Far }
BoxCorners == { 0 - Far, 0, 1, Far }
PathPoints == { << 0, 0 >>, << Far, 0 >>, << Far, Far \div 2 >> }
Ink == << 128 >>

InitDraw ==
    /\ \E c \in CanvasSizes :
          LET r == new(<< >>, "L", c[1], c[2], 0)
          IN  /\ heap = r.heap
              /\ images = << r.image >>
    /\ origin = << [op |-> "new", src |-> 0] >>
    /\ fs = [p \in Paths |-> NoFile]
    /\ made = [p \in Paths |-> NotMade]
    /\ result = NoResult
    /\ nwrites = 0

\* a drawing call is the first write to the canvas
FirstWrite == nwrites = 0

NextDraw ==
    \/ \E x0 \in BoxCorners, y0 \in BoxCorners, x1 \in BoxCorners, y1 \in BoxCorners :
          FirstWrite /\ DrawEllipse(1, x0, y0, x1, y1, Ink, << >>, 1)
    \/ \E x0 \in BoxCorners, y0 \in BoxCorners, x1 \in BoxCorners, y1 \in BoxCorners :
          \E w \in 1..2 : FirstWrite /\ DrawEllipse(1, x0, y0, x1, y1, << >>, Ink, w)
    \/ \E x0 \in BoxCorners, y0 \in BoxCorners, x1 \in BoxCorners, y1 \in BoxCorners :
          FirstWrite /\ DrawRectangle(1, x0, y0, x1, y1, Ink, << >>, 1)
    \/ \E x0 \in BoxCorners, y0 \in BoxCorners, x1 \in BoxCorners, y1 \in BoxCorners :
          \E w \in 1..2 : FirstWrite /\ DrawRectangle(1, x0, y0, x1, y1, << >>, Ink, w)
    \/ \E x0 \in LineCoords, y0 \in LineCoords, x1 \in LineCoords, y1 \in LineCoords :
          \E w \in 1..MaxWidth :
              FirstWrite
              /\ DrawLine(1, [flat |-> TRUE, seq |-> << x0, y0, x1, y1 >>], Ink, w)
    \/ \E n \in 2..MaxPoints : \E ps \in [1..n -> PathPoints] :
          FirstWrite /\ DrawLine(1, [flat |-> FALSE, seq |-> ps], Ink, 1)
    \/ \E x \in LineCoords, y \in LineCoords, n \in {0, 2}, size \in {1, Far} :
          FirstWrite /\ DrawText(1, x, y, n, size, Ink)

SpecDraw == InitDraw /\ [][NextDraw]_vars

----------------------------------------------------------------------------
(* One rectangle on a blank canvas, filled, outlined or both *)

RectCorners == { -1, 0, 2, Far \div 2, Far + 1 }
Edge == << 200 >>

NextRect ==
    \/ \E x0 \in RectCorners, y0 \in RectCorners, x1 \in RectCorners, y1 \in RectCorners :
          FirstWrite /\ DrawRectangle(1, x0, y0, x1, y1, Ink, << >>, 1)
    \/ \E x0 \in RectCorners, y0 \in RectCorners, x1 \in RectCorners, y1 \in RectCorners :
          \E fill \in { << >>, Ink }, w \in 1..2 :
              FirstWrite /\ DrawRectangle(1, x0, y0, x1, y1, fill, Edge, w)

SpecRect == InitDraw /\ [][NextRect]_vars

----------------------------------------------------------------------------
(* One line on a blank canvas, one pass of its walk at a time *)

\* a canvas that holds every point up to Far, and a flat one
WalkCanvases == { << Far + 1, Far + 1 >>, << MaxDim, 1 >> }

InitWalk ==
    /\ \E c \in WalkCanvases :
          LET r == new(<< >>, "L", c[1], c[2], 0)
          IN  /\ heap = r.heap
              /\ images = << r.image >>
    /\ origin = << [op |-> "new", src |-> 0] >>
    /\ fs = [p \in Paths |-> NoFile]
    /\ made = [p \in Paths |-> NotMade]
    /\ result = NoResult
    /\ nwrites = 0

NextWalk ==
    \/ \E x0 \in LineCoords, y0 \in LineCoords, x1 \in LineCoords, y1 \in LineCoords :
          \E w \in 1..2 : StartLine(1, x0, y0, x1, y1, Ink, w)
    \/ WalkPass

SpecWalk == InitWalk /\ [][NextWalk]_vars

\* the interpreter goes on with the loop it is in
SpecWalkFair == SpecWalk /\ WF_vars(WalkPass)

----------------------------------------------------------------------------
(* One filled ellipse on a blank canvas *)

\* a canvas that holds the box (0, 0, 2 Far, 2 Far), and a smaller one
EllipseCanvases == { << 2 * Far + 1, 2 * Far + 1 >>, << Far, MaxDim >> }
EllipseCorners == { -1, 0, 3, Far, 2 * Far }

InitEllipse ==
    /\ \E c \in EllipseCanvases :
          LET r == new(<< >>, "L", c[1], c[2], 0)
          IN  /\ heap = r.heap
              /\ images = << r.image >>
    /\ origin = << [op |-> "new", src |-> 0] >>
    /\ fs = [p \in Paths |-> NoFile]
    /\ made = [p \in Paths |-> NotMade]
    /\ result = NoResult
    /\ nwrites = 0

NextEllipse ==
    \E x0 \in EllipseCorners, y0 \in EllipseCorners, x1 \in EllipseCorners,
       y1 \in EllipseCorners :
        FirstWrite /\ DrawEllipse(1, x0, y0, x1, y1, Ink, << >>, 1)

SpecEllipse == InitEllipse /\ [][NextEllipse]_vars

----------------------------------------------------------------------------
(* The statistics of an Image, with and without a mask *)

StatValues == {0, 255}
MaskValues == {0, 1, 255}

\* ImageStat.Stat(images[i]) for m = 0, ImageStat.Stat(images[i], mask=images[m])
TakeStat(i, m) ==
    /\ \E r \in { Stat(heap, images[i], IF m = 0 THEN << >> ELSE << images[m] >>) } :
           result' = [NoResult EXCEPT !.op = "Stat", !.img = i, !.args = << m >>,
                                      !.err = r.err, !.value = r.value]
    /\ UNCHANGED << heap, images, origin, fs, made, nwrites >>

\* an Image and a mask, each as new() and putpixel() leave them
InitStat ==
    /\ \E w \in Dims, h \in Dims, mw \in Dims, mh \in Dims :
       \E g \in [1..h -> [1..w -> StatValues]], mg \in [1..mh -> [1..mw -> MaskValues]] :
          /\ heap = g \o mg
          /\ images = << [mode |-> "L", width |-> w, height |-> h,
                          pixels |-> Fresh(<< >>, h)],
                         [mode |-> "1", width |-> mw, height |-> mh,
                          pixels |-> Fresh(g, mh)] >>
    /\ origin = << [op |-> "new", src |-> 0], [op |-> "new", src |-> 0] >>
    /\ fs = [p \in Paths |-> NoFile]
    /\ made = [p \in Paths |-> NotMade]
    /\ result = NoResult
    /\ nwrites = 0

NextStat ==
    \/ TakeStat(1, 0)
    \/ TakeStat(1, 2)

SpecStat == InitStat /\ [][NextStat]_vars

----------------------------------------------------------------------------
(* The box of a text, for every size and length *)

\* ImageFont(size).getbbox(text) for a text of text_len characters
GetBBox(size, text_len) ==
    /\ result' = [NoResult EXCEPT !.op = "getbbox", !.args = << text_len, size >>,
                                  !.value = getbbox(size, text_len)]
    /\ UNCHANGED << heap, images, origin, fs, made, nwrites >>

NextFont == \E size \in 0..MaxSize, text_len \in 0..MaxText : GetBBox(size, text_len)

SpecFont == Init /\ [][NextFont]_vars

----------------------------------------------------------------------------
(* Values outside a byte, stored, read and saved *)

StoreCoords == 0..MaxDim
StoreValues == {-1, 300}

NextStore ==
    \/ \E i \in Handles, x \in StoreCoords, y \in StoreCoords, v \in StoreValues :
          PutPixel(i, x, y, v)
    \/ \E i \in Handles, x \in StoreCoords, y \in StoreCoords : GetPixel(i, x, y)
    \/ \E i \in Handles, p \in Paths : Save(i, p)

SpecStore == InitPixel /\ [][NextStore]_vars

----------------------------------------------------------------------------
(* A scan graded against a template *)

\* the sizes of the scans, and what they show
ScanSizes == { << 4, 4 >>, << 6, 3 >> }
Shades == { "white", "black", "grey", "left", "spot" }
Shade(shade, w, h, x, y) ==
    CASE shade = "white" -> 255
      [] shade = "black" -> 0
      [] shade = "grey" -> 128
      [] shade = "left" -> IF 2 * x < w THEN 0 ELSE 255
      [] shade = "spot" -> IF x = w \div 2 /\ y = h \div 2 THEN 0 ELSE 255

InitEval ==
    /\ \E size \in ScanSizes, shade \in Shades :
          /\ heap = [i \in 1..size[2] |->
                       [j \in 1..size[1] |-> Shade(shade, size[1], size[2], j - 1, i - 1)]]
          /\ images = << [mode |-> "L", width |-> size[1], height |-> size[2],
                          pixels |-> Fresh(<< >>, size[2])] >>
    /\ origin = << [op |-> "new", src |-> 0] >>
    /\ fs = [p \in Paths |-> NoFile]
    /\ made = [p \in Paths |-> NotMade]
    /\ result = NoResult
    /\ nwrites = 0

\* page sizes, bubble centres and radii in millimetres
PageSizes == { << 2, 2 >>, << 8, 3 >> }
CentresX == { -1, 0, 1, 3, 9 }
CentresY == { 0, 1, 3 }
Radii == { 0, 1, 2 }
Thresholds == { [num |-> 0, den |-> 1], [num |-> 1, den |-> 100], [num |-> 1, den |-> 2],
                [num |-> 1, den |-> 1], [num |-> 3, den |-> 2] }
BubbleA ==
    { [question_id |-> "Q1", option_id |-> "A", center_x_mm |-> x, center_y_mm |-> y,
       radius_mm |-> r] : x \in CentresX, y \in CentresY, r \in Radii }
BubbleB ==
    { [question_id |-> "Q1", option_id |-> "B", center_x_mm |-> 1, center_y_mm |-> 1,
       radius_mm |-> r] : r \in { 1, 2 } }
Templates ==
    { [name |-> "Eval", page_width_mm |-> p[1], page_height_mm |-> p[2], bubbles |-> bs] :
        p \in PageSizes,
        bs \in { << a >> : a \in BubbleA } \cup { << a, b >> : a \in BubbleA, b \in BubbleB } }

\* evaluator.evaluate(template_obj, images[i], threshold)
Evaluate(i, template_obj, threshold) ==
    /\ \E r \in { evaluate(heap, template_obj, images[i], threshold) } :
           result' = [NoResult EXCEPT !.op = "evaluate", !.img = i,
                                      !.args = << template_obj, threshold >>,
                                      !.err = r.err, !.value = r.results]
    /\ UNCHANGED << heap, images, origin, fs, made, nwrites >>

\* a behaviour grades its scan once
Ungraded == result.op # "evaluate"

NextEval ==
    \E i \in Handles, t \in Templates, th \in Thresholds : Ungraded /\ Evaluate(i, t, th)

SpecEval == InitEval /\ [][NextEval]_vars

----------------------------------------------------------------------------
(* A PNG file whose compressed stream lies in several IDAT chunks, read *)

\* the sizes of the Images compressed, and the step from pixel to pixel
SplitSizes == { << 1, 1 >>, << 2, 2 >>, << 3, 1 >> }
SplitShades == { 0, 50 }

\* an Image's grid whose values rise by shade from pixel to pixel
SplitGrid(w, h, shade) ==
    [y \in 1..h |-> [x \in 1..w |-> (shade * (x + w * (y - 1))) % 256]]

\* the positions at which a stream of n bytes is cut: before its first
\* byte, inside its header, its block header, its data and its checksum,
\* and behind its last byte
CutPoints(n) == { 0, 1, 3, 8, n - 2, n }

\* the pieces of stream between the cuts
Pieces(stream, cuts) ==
    [j \in 1..(Len(cuts) + 1) |->
        SubSeq(stream,
               (IF j = 1 THEN 0 ELSE cuts[j - 1]) + 1,
               IF j = Len(cuts) + 1 THEN Len(stream) ELSE cuts[j])]

\* a chunk that lies whole in the file with the right CRC
WholeChunk(type, data) ==
    [type |-> type, data |-> data, crc_ok |-> TRUE, kept |-> 12 + Len(data)]

\* the chunks of a file: the header (first, or late: behind the data), the
\* pieces each in an IDAT chunk, a tEXt chunk before the first piece if 0 is
\* in texts and behind the j-th piece if j is, and IEND
SplitChunks(w, h, pieces, texts, late) ==
    LET header == << WholeChunk(IHDR, PackIHDR(w, h)) >>
        skipped == << WholeChunk(TextChunk.type, TextChunk.data) >>
        part(j) == (IF j = 0 THEN << >> ELSE << WholeChunk(IDAT, pieces[j]) >>)
                   \o (IF j \in texts THEN skipped ELSE << >>)
    IN  (IF late THEN << >> ELSE header)
        \o Concat([j \in 1..(Len(pieces) + 1) |-> part(j - 1)], 1)
        \o (IF late THEN header ELSE << >>)
        \o << WholeChunk(IEND, << >>) >>

\* made keeps the size and the grid the stream was compressed from
InitSplit ==
    /\ heap = << >>
    /\ images = << >>
    /\ origin = << >>
    /\ \E size \in SplitSizes, shade \in SplitShades, k \in 1..MaxPieces,
          late \in BOOLEAN :
       \E grid \in { SplitGrid(size[1], size[2], shade) } :
       \E stream \in { zlib_compress(Concat([y \in 1..size[2] |-> << 0 >> \o grid[y]], 1)) } :
       \E cuts \in [1..(k - 1) -> CutPoints(Len(stream))], texts \in SUBSET (0..k) :
          /\ \A j \in 1..(k - 2) : cuts[j] <= cuts[j + 1]
          /\ \E cs \in { SplitChunks(size[1], size[2], Pieces(stream, cuts), texts, late) } :
                /\ fs = [p \in Paths |->
                            IF p = PngPath
                            THEN [exists |-> TRUE,
                                  data |-> PNG_SIGNATURE
                                           \o Concat([j \in 1..Len(cs) |->
                                                         ChunkBytes(cs[j], TRUE)], 1)]
                            ELSE NoFile]
                /\ made = [p \in Paths |->
                              IF p = PngPath
                              THEN [NotMade EXCEPT !.by = "outside", !.chunks = cs,
                                                   !.width = size[1], !.height = size[2],
                                                   !.grid = grid]
                              ELSE NotMade]
    /\ result = NoResult
    /\ nwrites = 0

NextSplit == Open(PngPath)

SpecSplit == InitSplit /\ [][NextSplit]_vars

----------------------------------------------------------------------------
(* The chunk loop of the PNG decoder, one pass at a time.  While open() is *)
(* inside _open_png, result.op is "reading" and result.args holds the      *)
(* locals of _open_png with the position of the handle.                    *)

\* open(path) finds the signature and calls _open_png
StartOpen(path) ==
    /\ result.op # "reading"
    /\ Len(images) < MaxImages
    /\ fs[path].exists
    /\ Read(fs[path].data, 1, Len(PNG_SIGNATURE)) = PNG_SIGNATURE
    /\ result' = [NoResult EXCEPT !.op = "reading", !.path = path, !.args = << Unread >>]
    /\ UNCHANGED << heap, images, origin, fs, made, nwrites >>

\* one pass through the while loop
ReadChunk ==
    /\ result.op = "reading"
    /\ result.args[1].err = NoError
    /\ ~result.args[1].done
    /\ \E r \in { ChunkStep(fs[result.path].data, result.args[1].pos, result.args[1]) } :
          result' = [result EXCEPT !.args = << r >>]
    /\ UNCHANGED << heap, images, origin, fs, made, nwrites >>

\* the loop has raised, or was left at IEND: open() raises or returns
EndOpen ==
    /\ result.op = "reading"
    /\ result.args[1].err # NoError \/ result.args[1].done
    /\ \E r \in { Decoded(result.args[1]) } :
           Built("open", 0, << >>, result.path,
                 [err |-> r.err, heap |-> heap \o r.rows,
                  image |-> [mode |-> "L", width |-> r.width, height |-> r.height,
                             pixels |-> Fresh(heap, Len(r.rows))]])
    /\ UNCHANGED << fs, made, nwrites >>

\* the chunks of the files: a supported and an unsupported IHDR, an IDAT
\* with data for a 1 x 1 Image, an IDAT and a tEXt without payload, IEND;
\* four of them also with a wrong CRC
LoopChunks ==
    { [type |-> c.type, data |-> c.data, crc_ok |-> TRUE] :
        c \in { [type |-> IHDR, data |-> PackIHDR(1, 1)],
                [type |-> IHDR, data |-> PackU32(1) \o PackU32(1) \o << 16, 0, 0, 0, 0 >>],
                [type |-> IDAT, data |-> zlib_compress(Zeros(2))],
                [type |-> IDAT, data |-> << >>],
                [type |-> TextChunk.type, data |-> << >>],
                EndChunk } }
    \cup
    { [type |-> c.type, data |-> c.data, crc_ok |-> FALSE] :
        c \in { [type |-> IHDR, data |-> PackU32(1) \o PackU32(1) \o << 16, 0, 0, 0, 0 >>],
                [type |-> IDAT, data |-> zlib_compress(Zeros(2))],
                [type |-> TextChunk.type, data |-> << >>],
                EndChunk } }

\* how a file ends: with 1, 5 or 10 bytes of its last chunk missing, or
\* with three more bytes behind its last chunk
Ends ==
    { [cut |-> n, more |-> << >>] : n \in { 0, 1, 5, 10 } }
    \cup { [cut |-> 0, more |-> << 0, 0, 0 >>] }

\* a file of up to MaxChunks chunks behind the signature.  made.written
\* holds the bytes behind the last chunk.
InitLoop ==
    /\ heap = << >>
    /\ images = << >>
    /\ origin = << >>
    /\ \E n \in 0..MaxChunks :
       \E cs \in [1..n -> LoopChunks], end \in Ends :
          /\ n = 0 => end.cut = 0
          /\ \E bytes \in { Concat([k \in 1..n |-> ChunkBytes(cs[k], cs[k].crc_ok)], 1) } :
                fs = [p \in Paths |->
                         IF p = PngPath
                         THEN [exists |-> TRUE,
                               data |-> PNG_SIGNATURE
                                        \o SubSeq(bytes, 1, Len(bytes) - end.cut)
                                        \o end.more]
                         ELSE NoFile]
          /\ made = [p \in Paths |->
                        IF p = PngPath
                        THEN [NotMade EXCEPT
                                !.by = "outside",
                                !.written = end.more,
                                !.chunks =
                                    [k \in 1..n |->
                                        [type |-> cs[k].type, data |-> cs[k].data,
                                         crc_ok |-> cs[k].crc_ok,
                                         kept |-> 12 + Len(cs[k].data)
                                                  - (IF k = n THEN end.cut ELSE 0)]]]
                        ELSE NotMade]
    /\ result = NoResult
    /\ nwrites = 0

NextLoop ==
    \/ StartOpen(PngPath)
    \/ ReadChunk
    \/ EndOpen

SpecLoop == InitLoop /\ [][NextLoop]_vars

\* the interpreter goes on executing the call it is in
SpecLoopFair == SpecLoop /\ WF_vars(ReadChunk) /\ WF_vars(EndOpen)

----------------------------------------------------------------------------
(* Properties *)

\* the last call opened the PNG file that someone else wrote
OpenedOutside ==
    /\ result.op = "open"
    /\ result.path = PngPath
    /\ made[PngPath].by = "outside"

\* the chunks written to the PNG file, and those of them written whole
Chunks == made[PngPath].chunks
IsWhole(c) == c.kept = 12 + Len(c.data)
Wholes == SelectSeq(Chunks, IsWhole)

\* C8 as stated: open() raises the truncation error whenever a read of a
\* chunk's length, type, payload or CRC is short, and every file that begins
\* with the PNG signature and ends before an IEND chunk has been read
\* completely raises that error and yields no Image.
C8_NoIendIsTruncated ==
    OpenedOutside /\ (\A k \in 1..Len(Chunks) : ~(Chunks[k].type = IEND /\ IsWhole(Chunks[k])))
        => result.err = TruncatedError /\ result.out = 0

\* C8, amended: open() raises the truncation error and yields no Image
\* whenever it comes to a read of a chunk's length, type, payload or CRC
\* that is short, which it does when every chunk that lies whole in the file
\* passes the CRC test, is no IEND and is no IHDR that open() rejects.
C8_ShortReadIsTruncated ==
    OpenedOutside /\ ReadsOn(Wholes)
        => result.err = TruncatedError /\ result.out = 0

\* a file that ends inside the payload of a chunk, behind an IHDR chunk,
\* has been opened
C8_Reached ==
    /\ OpenedOutside
    /\ ReadsOn(Wholes)
    /\ Len(Chunks) = 2
    /\ Chunks[1].type = IHDR
    /\ Chunks[2].kept > 8 /\ Chunks[2].kept < 8 + Len(Chunks[2].data)
    /\ result.err = TruncatedError

\* the chunk is a whole IHDR chunk with the right CRC and all seven fields
IsHeader(c) == c.type = IHDR /\ IsWhole(c) /\ c.crc_ok /\ Len(c.data) = 13

\* bit depth 8, colour type 0, compression 0, filter method 0, interlace 0
Supported(c) ==
    /\ c.data[9] = 8
    /\ c.data[10] = 0
    /\ c.data[11] = 0
    /\ c.data[12] = 0
    /\ c.data[13] = 0

\* the exceptions open() raises for an IHDR it does not support
UnsupportedErrors == { ColorTypeError, CompressionError }

\* C9: open() raises an "Unsupported PNG ..." error and yields no Image for
\* every IHDR chunk with a right CRC in which bit depth # 8, colour type # 0,
\* compression # 0, filter method # 0 or interlace # 0; and it raises no such
\* error when all five fields of every IHDR chunk have those values.
C9_UnsupportedHeader ==
    OpenedOutside =>
        /\ (\E k \in 1..Len(Chunks) :
                /\ ReadsOn(SubSeq(Chunks, 1, k - 1))
                /\ IsHeader(Chunks[k])
                /\ ~Supported(Chunks[k]))
              => result.err \in UnsupportedErrors /\ result.out = 0
        /\ (\A k \in 1..Len(Chunks) :
                Chunks[k].type = IHDR => IsHeader(Chunks[k]) /\ Supported(Chunks[k]))
              => result.err \notin UnsupportedErrors

\* a file whose IHDR chunk announces interlacing, behind a chunk of another
\* type, has been opened
C9_Reached ==
    /\ OpenedOutside
    /\ Len(Chunks) = 2
    /\ Chunks[1].type # IHDR
    /\ ReadsOn(SubSeq(Chunks, 1, 1))
    /\ IsHeader(Chunks[2])
    /\ Chunks[2].data[13] # 0
    /\ result.err = CompressionError

RECURSIVE DataOf(_, _)
\* the payloads of the IDAT chunks among chunks from the i-th on, concatenated
DataOf(chunks, i) ==
    IF i > Len(chunks) THEN << >>
    ELSE (IF chunks[i].type = IDAT THEN chunks[i].data ELSE << >>) \o DataOf(chunks, i + 1)

\* the last IHDR chunk of the file
IsIHDR(c) == c.type = IHDR
LastHeader == SelectSeq(Chunks, IsIHDR)[Len(SelectSeq(Chunks, IsIHDR))]

\* the width and height a (small) IHDR payload announces
Announced(data) ==
    [width |-> 256 * data[3] + data[4], height |-> 256 * data[7] + data[8]]

\* open() has read the file up to a whole IEND chunk, has met an IHDR chunk,
\* and the IDAT payloads together are a zlib stream
ReachedEnd ==
    /\ OpenedOutside
    /\ Chunks # << >>
    /\ ReadsOn(SubSeq(Chunks, 1, Len(Chunks) - 1))
    /\ Chunks[Len(Chunks)].type = IEND
    /\ IsWhole(Chunks[Len(Chunks)])
    /\ Chunks[Len(Chunks)].crc_ok
    /\ SelectSeq(Chunks, IsIHDR) # << >>
    /\ zlib_decompress(DataOf(Chunks, 1)).err = NoError

\* C10: after IEND, open() raises the data length error and builds no Image
\* whenever the decompressed IDAT data is not (width + 1) * height bytes
\* long, for every width and height the IHDR announces, 0 included.
C10_LengthChecked ==
    ReachedEnd
    /\ Len(zlib_decompress(DataOf(Chunks, 1)).data)
           # (Announced(LastHeader.data).width + 1) * Announced(LastHeader.data).height
        => result.err = DataLengthError /\ result.out = 0

\* a file with IHDR, IDAT and IEND whose data is one row short has been
\* opened
C10_Reached ==
    /\ ReachedEnd
    /\ Announced(LastHeader.data).width > 0
    /\ Announced(LastHeader.data).height > 1
    /\ Len(zlib_decompress(DataOf(Chunks, 1)).data)
           = (Announced(LastHeader.data).width + 1) * (Announced(LastHeader.data).height - 1)
    /\ result.err = DataLengthError

\* the calls that write pixels
WriteOps == {"putpixel", "ellipse", "rectangle", "line", "text"}

\* Image j was built by crop or convert reading Image i
Derived(i, j) == origin[j].op \in {"crop", "convert"} /\ origin[j].src = i

\* the Image the last call read, and the Image it returned
Source == images[result.img]
Returned == images[result.out]

\* the box of the last crop call lies entirely on one side of its Image
BoxOutside ==
    \/ result.args[3] <= 0
    \/ result.args[1] >= Source.width
    \/ result.args[4] <= 0
    \/ result.args[2] >= Source.height

\* the grid with every value brought into [0, 255]
Clamped(grid) ==
    [i \in 1..Len(grid) |->
        [j \in 1..Len(grid[i]) |->
            IF grid[i][j] < 0 THEN 0 ELSE IF grid[i][j] > 255 THEN 255 ELSE grid[i][j]]]

\* the Image save() wrote to path p was of mode "L" with height rows of width
\* values, the file has not been changed since, and the last call opened it
OpenedSaved(p) ==
    /\ result.op = "open"
    /\ result.path = p
    /\ made[p].by = "save"
    /\ made[p].damage = << >>
    /\ made[p].mode = "L"
    /\ made[p].width >= 0 /\ made[p].height >= 0
    /\ Len(made[p].grid) = made[p].height
    /\ \A k \in 1..Len(made[p].grid) : Len(made[p].grid[k]) = made[p].width

\* the Image the last call returned is the one saved to p, clamped
RoundTrip(p) ==
    /\ result.err = NoError
    /\ Returned.mode = made[p].mode
    /\ Returned.width = made[p].width
    /\ Returned.height = made[p].height
    /\ Grid(heap, Returned) = Clamped(made[p].grid)

\* a value of the grid lies outside [0, 255]
HasOutlier(grid) ==
    \E i \in 1..Len(grid) : \E j \in 1..Len(grid[i]) : grid[i][j] < 0 \/ grid[i][j] > 255

\* C1: opening the PNG file that save() wrote for a mode-"L" Image with a
\* consistent grid (any integers, width 0 and height 0 included) yields an
\* Image of the same mode, width and height whose pixel at every (x, y) is
\* max(0, min(255, value saved)).
C1_PngRoundTrip == OpenedSaved(PngPath) => RoundTrip(PngPath)

\* a PNG file saved from a non-empty Image with a value outside [0, 255]
\* has been opened
C1_Reached ==
    /\ OpenedSaved(PngPath)
    /\ made[PngPath].width > 1
    /\ made[PngPath].height > 1
    /\ HasOutlier(made[PngPath].grid)
    /\ result.err = NoError

\* C2: opening the graymap file that save() wrote for a mode-"L" Image with
\* a consistent grid (any integers, width 0 and height 0 included) yields an
\* Image of the same mode, width and height whose pixel at every (x, y) is
\* max(0, min(255, value saved)).
C2_GraymapRoundTrip == OpenedSaved(PgmPath) => RoundTrip(PgmPath)

\* a graymap file saved from a non-empty Image with a value outside
\* [0, 255] has been opened
C2_Reached ==
    /\ OpenedSaved(PgmPath)
    /\ made[PgmPath].width > 1
    /\ made[PgmPath].height > 1
    /\ HasOutlier(made[PgmPath].grid)
    /\ result.err = NoError

RECURSIVE TypeAndPayload(_, _)
\* the positions of the type tags and payloads of the chunks that start at
\* position p of a PNG file
TypeAndPayload(data, p) ==
    IF p + 11 > Len(data) THEN {}
    ELSE LET n == data[p] * 16777216 + data[p + 1] * 65536 + data[p + 2] * 256
                  + data[p + 3]
         IN  ((p + 4)..(p + 7 + n)) \cup TypeAndPayload(data, p + 12 + n)

\* the last call opened a PNG file written by save() in which one byte of a
\* type tag or of a payload has been changed since
OpenedDamaged(p) ==
    /\ result.op = "open"
    /\ result.path = p
    /\ made[p].by = "save"
    /\ Len(made[p].written) > Len(PNG_SIGNATURE)
    /\ SubSeq(made[p].written, 1, Len(PNG_SIGNATURE)) = PNG_SIGNATURE
    /\ made[p].damage # << >>
    /\ fs[p].data[made[p].damage[1]] # made[p].written[made[p].damage[1]]
    /\ made[p].damage[1] \in TypeAndPayload(made[p].written, Len(PNG_SIGNATURE) + 1)

\* C3: in a PNG file written by save(), changing any single byte inside the
\* type tag or the payload of any chunk makes open() raise the CRC mismatch
\* error and return no Image.
C3_CrcEnforced ==
    \A p \in Paths : OpenedDamaged(p) => result.err = CorruptedError /\ result.out = 0

\* a PNG file with a changed byte in the payload of its IDAT chunk has been
\* opened
C3_Reached ==
    /\ OpenedDamaged(PngPath)
    /\ made[PngPath].damage[1] > Len(PNG_SIGNATURE) + 25 + 8
    /\ made[PngPath].damage[1] <= Len(made[PngPath].written) - 12 - 4
    /\ made[PngPath].width > 0 /\ made[PngPath].height > 0

\* the last call was getpixel or putpixel with x outside [0, width) or y
\* outside [0, height)
OutOfBounds ==
    /\ result.op \in {"getpixel", "putpixel"}
    /\ \/ result.args[1] < 0
       \/ result.args[1] >= Source.width
       \/ result.args[2] < 0
       \/ result.args[2] >= Source.height

\* C4: getpixel and putpixel raise for every x outside [0, width) and every
\* y outside [0, height), negative coordinates included, and a putpixel that
\* raises changes no pixel.
C4_OutOfBoundsRaises ==
    /\ OutOfBounds => result.err = IndexError
    /\ result.op = "putpixel" /\ result.err # NoError => ~result.changed

\* putpixel with a negative x has been called on a non-empty Image
C4_Reached ==
    /\ result.op = "putpixel"
    /\ result.args[1] < 0
    /\ Source.width > 0 /\ Source.height > 0

\* C5: crop never raises, and a crop whose box lies entirely outside the
\* Image (left of, right of, above or below it) returns an Image of width 0
\* and height 0.
C5_CropOutsideIsEmpty ==
    result.op = "crop" =>
        /\ result.err = NoError
        /\ BoxOutside => Returned.width = 0 /\ Returned.height = 0

\* a crop with a box right of and below a 2x2 Image has returned
C5_Reached ==
    /\ result.op = "crop"
    /\ result.err = NoError
    /\ Source.width > 0 /\ Source.height > 0
    /\ result.args[1] >= Source.width /\ result.args[2] >= Source.height

\* the rows and columns of Image i agree with its width and height
WellShaped(i) ==
    /\ images[i].width >= 0
    /\ images[i].height >= 0
    /\ Len(images[i].pixels) = images[i].height
    /\ \A k \in 1..Len(images[i].pixels) :
          Len(heap[images[i].pixels[k]]) = images[i].width

\* C6: after any sequence of new, putpixel, crop, convert and drawing calls
\* every Image has width >= 0, height >= 0, exactly `height` rows and
\* exactly `width` values in each row.
C6_ShapeInvariant == \A i \in Handles : WellShaped(i)

\* an inverted box has been cropped out of a well-shaped Image
C6_Reached ==
    /\ result.op = "crop"
    /\ result.err = NoError
    /\ WellShaped(result.img)
    /\ result.args[1] > result.args[3]
    /\ result.args[1] < Source.width

\* C7: once Image j has been built from Image i by crop or convert, a
\* putpixel or drawing call on j leaves every pixel of i unchanged and a
\* putpixel or drawing call on i leaves every pixel of j unchanged.
C7_NoAliasing ==
    [][\A i \in Handles, j \in Handles :
          Derived(i, j) /\ result'.op \in WriteOps =>
              /\ result'.img = j => Grid(heap', images[i]) = Grid(heap, images[i])
              /\ result'.img = i => Grid(heap', images[j]) = Grid(heap, images[j])]_vars

\* a write has changed a pixel of an Image that was cropped or converted
\* from a non-empty Image, or of the Image it was built from
C7_Reached ==
    \E i \in Handles, j \in Handles :
        /\ Derived(i, j)
        /\ images[j].width > 0 /\ images[j].height > 0
        /\ result.op \in WriteOps
        /\ result.img \in {i, j}
        /\ result.err = NoError
        /\ \E k \in 1..Len(images[result.img].pixels) :
              \E c \in 1..Len(heap[images[result.img].pixels[k]]) :
                  heap[images[result.img].pixels[k]][c] \in {128, 300}

\* the decompressed IDAT data of the file, and what its IHDR announces
RawOfFile == zlib_decompress(DataOf(Chunks, 1)).data
WidthOfFile == Announced(LastHeader.data).width
HeightOfFile == Announced(LastHeader.data).height

\* C11: given decompressed data of the right length, open() raises the
\* "Unsupported PNG filter type" error and returns no Image if the filter
\* byte of any of the `height` rows is not 0, also when the rows before it
\* had filter byte 0.
C11_FilterChecked ==
    ReachedEnd
    /\ Len(RawOfFile) = (WidthOfFile + 1) * HeightOfFile
    /\ (\E r \in 0..(HeightOfFile - 1) : RawOfFile[r * (WidthOfFile + 1) + 1] # 0)
        => result.err = FilterTypeError /\ result.out = 0

\* a file whose first row has filter byte 0 and whose second row has not
\* has been opened
C11_Reached ==
    /\ ReachedEnd
    /\ WidthOfFile = 2 /\ HeightOfFile = 2
    /\ Len(RawOfFile) = 6
    /\ RawOfFile[1] = 0 /\ RawOfFile[4] # 0
    /\ result.err = FilterTypeError

\* a file that save() did not write has been opened; what it is made of
OpenedGiven ==
    /\ result.op = "open"
    /\ result.path = PgmPath
    /\ made[PgmPath].by = "outside"
Given == made[PgmPath].chunks
OpenedText == OpenedGiven /\ Given.kind = "text"
TwoNumbers(d) == ~d.junk /\ Len(d.vals) = 2
CountMatches == Len(Given.data.vals) = Given.dims.vals[1] * Given.dims.vals[2]

\* C12 as stated: open() of a text file raises the "Unsupported image
\* format" error when the first line is not exactly "P2" and the "Unsupported
\* max value" error when the line after the dimensions is not "255", and
\* comment lines before the dimensions are skipped.
C12_HeaderValidated ==
    OpenedText =>
        /\ Given.head # P2 => result.err = FormatError /\ result.out = 0
        /\ Given.head = P2 /\ TwoNumbers(Given.dims) /\ Given.max # Text255
            => result.err = MaxValueError /\ result.out = 0
        /\ Given.head = P2 /\ TwoNumbers(Given.dims) /\ Given.max = Text255
           /\ ~Given.data.junk /\ CountMatches
            => result.err = NoError

\* a file whose first line is "P2 " has been opened and an Image returned
C12_Reached ==
    /\ OpenedText
    /\ Given.head = P2 \o SP
    /\ result.err = NoError
    /\ result.out # 0

\* first lines and max-value lines after which open() goes on reading
AcceptedHeads == { P2, P2 \o SP, SP \o P2 }
AcceptedMaxima == { Text255, << 48 >> \o Text255, << 43 >> \o Text255 }
CountIsRead ==
    /\ OpenedText
    /\ Given.head \in AcceptedHeads
    /\ TwoNumbers(Given.dims)
    /\ Given.max \in AcceptedMaxima
    /\ ~Given.data.junk

\* C13: when open() gets as far as the numbers after the max-value line, it
\* raises the "Unexpected pixel count" error if there are not width * height
\* of them, and otherwise returns an Image whose pixel (x, y) is the
\* (y * width + x)-th number read, counting from 0.
C13_CountChecked ==
    CountIsRead =>
        IF ~CountMatches
        THEN result.err = PixelCountError /\ result.out = 0
        ELSE /\ result.err = NoError
             /\ Returned.width = Given.dims.vals[1]
             /\ Returned.height = Given.dims.vals[2]
             /\ \A y \in 0..(Returned.height - 1) : \A x \in 0..(Returned.width - 1) :
                    heap[Returned.pixels[y + 1]][x + 1]
                      = Given.data.vals[y * Returned.width + x + 1]

\* four numbers have been read into an Image of two rows of two
C13_Reached ==
    /\ CountIsRead
    /\ Given.dims.vals = << 2, 2 >>
    /\ Len(Given.data.vals) = 4
    /\ result.err = NoError
    /\ heap[Returned.pixels[2]][1] = Given.data.vals[3]

\* C14 as stated: open() of any file either raises and returns no Image, or
\* returns an Image of mode "L" with width >= 0, height >= 0, exactly
\* `height` rows of exactly `width` values, every value in 0..255.
C14_DecodeAtomic ==
    OpenedGiven =>
        IF result.err # NoError THEN result.out = 0
        ELSE /\ result.out # 0
             /\ Returned.mode = "L"
             /\ WellShaped(result.out)
             /\ \A k \in 1..Len(Returned.pixels) :
                    \A x \in 1..Len(heap[Returned.pixels[k]]) :
                        heap[Returned.pixels[k]][x] \in 0..255

\* open() has returned an Image that holds a value above 255
C14_Reached ==
    /\ OpenedText
    /\ result.err = NoError
    /\ result.out # 0
    /\ \E k \in 1..Len(Returned.pixels) :
          \E x \in 1..Len(heap[Returned.pixels[k]]) :
              heap[Returned.pixels[k]][x] > 255

\* the errors of the two decoders
PngErrors ==
    { TruncatedError, CorruptedError, ColorTypeError, CompressionError,
      IncompleteError, DataLengthError, FilterTypeError, StructError, ZlibError,
      IndexError }
TextErrors ==
    { FormatError, MaxValueError, PixelCountError, LiteralError, UnpackError,
      UnicodeDecodeError }
Signed ==
    /\ Len(fs[PgmPath].data) >= 8
    /\ SubSeq(fs[PgmPath].data, 1, 8) = << 137, 80, 78, 71, 13, 10, 26, 10 >>

\* C16: open() decodes a file as PNG exactly when its first 8 bytes are the
\* PNG signature, and reads every other file from its first byte as a text
\* graymap: a signed file fails with an error of the PNG decoder or is a PNG
\* file, an unsigned one fails with an error of the text parser or is a
\* text file.
C16_Dispatch ==
    OpenedGiven =>
        IF Signed
        THEN /\ result.err \in PngErrors \cup {NoError}
             /\ result.err = NoError => Given.kind = "png"
        ELSE /\ result.err \in TextErrors \cup {NoError}
             /\ result.err = NoError => Given.kind = "text"

\* a PNG file with one byte of its signature changed went to the text parser
C16_Reached ==
    /\ OpenedGiven
    /\ ~Signed
    /\ Given.kind = "png"
    /\ result.err \in TextErrors

\* C15 as stated: when save() raises, no file exists at the path afterwards.
C15_NoFileOnFailure ==
    result.op = "save" /\ result.err # NoError => ~fs[result.path].exists

\* save() has raised and left a file that holds the PNG signature only
C15_Reached ==
    /\ result.op = "save"
    /\ result.err = StructError
    /\ fs[result.path].exists
    /\ fs[result.path].data = PNG_SIGNATURE

\* the big-endian number in the four bytes at position p
BigEndian(data, p) ==
    data[p] * 16777216 + data[p + 1] * 65536 + data[p + 2] * 256 + data[p + 3]

\* the chunk framed at position p: length, type, payload, CRC, and the
\* position after it
Frame(data, p) ==
    LET n == BigEndian(data, p)
    IN  [length |-> n,
         type |-> SubSeq(data, p + 4, p + 7),
         payload |-> SubSeq(data, p + 8, p + 7 + n),
         crc |-> SubSeq(data, p + 8 + n, p + 11 + n),
         next |-> p + 12 + n]

\* the CRC field of a chunk is the CRC32 of its type and payload
Framed(c) == c.crc = WordBytes(crc32(c.type \o c.payload, Crc32Start))

SavedPng == result.op = "save" /\ result.path = PngPath /\ result.err = NoError

\* C17: a PNG file that save() has written holds, in this order and nothing
\* else, the 8-byte signature, one IHDR chunk with width, height, 8, 0, 0,
\* 0, 0, one IDAT chunk and one empty IEND chunk, each framed as 4-byte
\* big-endian length, 4-byte type, payload, and CRC32 over type and payload.
C17_PngLayout ==
    SavedPng =>
        LET d == fs[PngPath].data
            header == Frame(d, 9)
            body == Frame(d, header.next)
            trailer == Frame(d, body.next)
        IN  /\ Len(d) >= 8 + 25 + 12 + 12
            /\ SubSeq(d, 1, 8) = << 137, 80, 78, 71, 13, 10, 26, 10 >>
            /\ header.type = << 73, 72, 68, 82 >>
            /\ header.length = 13
            /\ BigEndian(header.payload, 1) = images[result.img].width
            /\ BigEndian(header.payload, 5) = images[result.img].height
            /\ SubSeq(header.payload, 9, 13) = << 8, 0, 0, 0, 0 >>
            /\ Framed(header)
            /\ body.type = << 73, 68, 65, 84 >>
            /\ Framed(body)
            /\ trailer.type = << 73, 69, 78, 68 >>
            /\ trailer.length = 0
            /\ Framed(trailer)
            /\ trailer.next = Len(d) + 1

\* an Image of two rows of two has been saved as PNG
C17_Reached ==
    /\ SavedPng
    /\ images[result.img].width = 2
    /\ images[result.img].height = 2
    /\ Frame(fs[PngPath].data, 34).length > 0

\* the last call was a drawing call; the positions of its canvas
DrawOps == { "line", "rectangle", "ellipse", "text" }
OnCanvas == (0..(Source.width - 1)) \X (0..(Source.height - 1))

\* C18 as stated: every line, rectangle, ellipse and text call, with
\* coordinates on or off the canvas, raises nothing, gives putpixel only
\* positions with 0 <= x < width and 0 <= y < height, and leaves the width,
\* the height and the row lengths of the Image as they were.
C18_DrawingClipped ==
    result.op \in DrawOps =>
        /\ result.err = NoError
        /\ result.targets \subseteq OnCanvas
        /\ << Source.width, Source.height >> \in CanvasSizes
        /\ WellShaped(result.img)

\* line() has raised on a path with a point off the canvas
C18_Reached ==
    /\ result.op = "line"
    /\ result.err = TypeError
    /\ ~result.args[1]
    /\ \E k \in 1..Len(result.args[2]) : result.args[2][k] \notin OnCanvas

\* the last call was line() with x0, y0, x1, y1; its segment and width
FlatLine == result.op = "line" /\ result.args[1]
Segment == result.args[2]
LineWidth == result.args[3]
AxisAligned == Segment[1] = Segment[3] \/ Segment[2] = Segment[4]
\* the points an axis-aligned segment passes through
Steps ==
    (Min(Segment[1], Segment[3])..Max(Segment[1], Segment[3]))
    \X (Min(Segment[2], Segment[4])..Max(Segment[2], Segment[4]))
\* the square that extends half pixels to each side of p
Square(p, half) == ((p[1] - half)..(p[1] + half)) \X ((p[2] - half)..(p[2] + half))
Painted(half) == (UNION { Square(p, half) : p \in Steps }) \cap OnCanvas
\* the line from (0, Far / 2) to (Far, Far / 2) on the canvas that holds it
LongLine ==
    /\ FlatLine
    /\ Segment = << 0, Far \div 2, Far, Far \div 2 >>
    /\ Source.width = Far + 1 /\ Source.height = Far + 1
\* a line of one point in the middle of the canvas that holds every point
MiddlePoint ==
    /\ FlatLine
    /\ Segment = << Far \div 2, Far \div 2, Far \div 2, Far \div 2 >>
    /\ Source.width = Far + 1 /\ Source.height = Far + 1

\* C19, amended: at every point of an axis-aligned segment line() paints,
\* as far as the canvas reaches, the square that extends width div 2 pixels
\* to each side of the point, of side 2 * (width div 2) + 1; the line from
\* (0, Far / 2) to (Far, Far / 2) paints more pixels with width 3 than with
\* width 1.
C19_HalfWidthEachSide ==
    /\ FlatLine /\ AxisAligned => result.targets = Painted(LineWidth \div 2)
    /\ LongLine /\ LineWidth = 3
        => Cardinality(result.targets) > Cardinality(Painted(0))
    /\ MiddlePoint
        => Cardinality({ t[1] : t \in result.targets }) = 2 * (LineWidth \div 2) + 1

\* a line of width 2 has painted a square of side 3 around a point
C19_Reached ==
    /\ MiddlePoint
    /\ LineWidth = 2
    /\ Cardinality(result.targets) = 9

\* C19 as stated: line() paints a square of side exactly `width` around
\* the point, for odd and for even widths, and the long line paints more
\* pixels with width 3 than with width 1.
C19_SideIsWidth ==
    /\ MiddlePoint
        => /\ Cardinality({ t[1] : t \in result.targets }) = LineWidth
           /\ Cardinality({ t[2] : t \in result.targets }) = LineWidth
           /\ Cardinality(result.targets) = LineWidth * LineWidth
    /\ LongLine /\ LineWidth = 3
        => Cardinality(result.targets) > Cardinality(Painted(0))

\* the last call was line() with a list of points
PathLine == result.op = "line" /\ ~result.args[1]
\* the positions one segment from p to q gives putpixel
SegmentTargets(p, q) ==
    LET writes == SegmentWrites(Source, p[1], p[2], q[1], q[2], Ink, LineWidth)
    IN  Targets(writes, Len(writes))

\* C20 as stated: line() on a path of n >= 2 points raises nothing and
\* paints one segment per pair of consecutive points, for every n, and on
\* x0, y0, x1, y1 it paints what it paints on the path (x0, y0), (x1, y1).
C20_SegmentPerPair ==
    /\ PathLine
        => /\ result.err = NoError
           /\ result.targets
                = UNION { SegmentTargets(Segment[k], Segment[k + 1]) :
                            k \in 1..(Len(Segment) - 1) }
    /\ FlatLine
        => /\ result.err = NoError
           /\ result.targets = SegmentTargets(<< Segment[1], Segment[2] >>,
                                               << Segment[3], Segment[4] >>)

\* line() has raised on a path of four points that all lie on the canvas
C20_Reached ==
    /\ PathLine
    /\ Len(Segment) = 4
    /\ \A k \in 1..4 : Segment[k] \in OnCanvas
    /\ result.err = TypeError
    /\ ~result.changed

\* the pixel (x, y) of the Image the last call was made on
PixelAt(x, y) == heap[Source.pixels[y + 1]][x + 1]
\* the box of the last ellipse or rectangle call
Box == result.args
\* twice the half-extents of the box, each at least 1
TwiceRx == Max(2, Abs(Box[3] - Box[1]))
TwiceRy == Max(2, Abs(Box[4] - Box[2]))
\* ((x - cx) / rx)^2 + ((y - cy) / ry)^2 <= 1, multiplied out
InEllipse(x, y) ==
    (2 * x - (Box[1] + Box[3])) * (2 * x - (Box[1] + Box[3])) * TwiceRy * TwiceRy
    + (2 * y - (Box[2] + Box[4])) * (2 * y - (Box[2] + Box[4])) * TwiceRx * TwiceRx
    <= TwiceRx * TwiceRx * TwiceRy * TwiceRy
InBox(x, y) == Box[1] <= x /\ x <= Box[3] /\ Box[2] <= y /\ y <= Box[4]

\* C21: ellipse(box, fill) on a blank canvas sets to fill exactly the
\* pixels of the canvas that lie in the bounding box and satisfy
\* ((x-cx)/rx)^2 + ((y-cy)/ry)^2 <= 1, and leaves the others 0; for the box
\* (0, 0, 2 Far, 2 Far) the centre (Far, Far) is filled and (0, 0) is not.
C21_EllipseFill ==
    result.op = "ellipse" =>
        /\ result.err = NoError
        /\ \A t \in OnCanvas :
              PixelAt(t[1], t[2])
                = IF InBox(t[1], t[2]) /\ InEllipse(t[1], t[2]) THEN Ink[1] ELSE 0
        /\ Box = << 0, 0, 2 * Far, 2 * Far, 1 >> /\ Source.width = 2 * Far + 1
            => PixelAt(Far, Far) = Ink[1] /\ PixelAt(0, 0) = 0

\* the ellipse of the box (0, 0, 2 Far, 2 Far) has been drawn
C21_Reached ==
    /\ result.op = "ellipse"
    /\ Box = << 0, 0, 2 * Far, 2 * Far, 1 >>
    /\ Source.width = 2 * Far + 1 /\ Source.height = 2 * Far + 1
    /\ PixelAt(Far, Far) = Ink[1]
    /\ PixelAt(Far, 0) = Ink[1]
    /\ PixelAt(0, 0) = 0

\* the mask of the last Stat call, when it had one
Mask == images[result.args[1]]
Masked == result.args[1] # 0
\* the positions of the image that the statistics consider
Considered ==
    { t \in OnCanvas : ~Masked \/ heap[Mask.pixels[t[2] + 1]][t[1] + 1] # 0 }
RECURSIVE SumAt(_)
\* the sum of the image's values at a set of positions
SumAt(ts) ==
    IF ts = {} THEN 0
    ELSE LET t == CHOOSE u \in ts : TRUE
         IN  PixelAt(t[1], t[2]) + SumAt(ts \ {t})
SameSize == Mask.width = Source.width /\ Mask.height = Source.height
GridOf(i) == Grid(heap, images[i])

\* C22: without a mask count = width * height and mean = sum / count; with
\* a mask of the image's size count is the number of positions where the
\* mask is not 0 and mean is the mean of the image there; the mean is 0.0
\* when count is 0; a mask of another width or height raises the mask
\* error.  [[0,255],[0,255]] gives count 4, mean 127.5, and with the mask
\* [[1,0],[1,0]] count 2, mean 0.0.
C22_Statistics ==
    result.op = "Stat" =>
        /\ (result.err = MaskError) <=> (Masked /\ ~SameSize)
        /\ result.err \in {NoError, MaskError}
        /\ result.err = NoError =>
              /\ result.value.count = Cardinality(Considered)
              /\ ~Masked => result.value.count = Source.width * Source.height
              /\ result.value.count = 0 => result.value.mean = [num |-> 0, den |-> 1]
              /\ result.value.count > 0 =>
                    /\ result.value.mean.den > 0
                    /\ result.value.mean.num * result.value.count
                         = SumAt(Considered) * result.value.mean.den
        /\ GridOf(result.img) = << << 0, 255 >>, << 0, 255 >> >> /\ ~Masked =>
              /\ result.value.count = 4
              /\ 2 * result.value.mean.num = 255 * result.value.mean.den
        /\ /\ GridOf(result.img) = << << 0, 255 >>, << 0, 255 >> >>
            /\ Masked
            /\ GridOf(2) = << << 1, 0 >>, << 1, 0 >> >>
            => result.value.count = 2 /\ result.value.mean.num = 0

\* the statistics of [[0,255],[0,255]] under the mask [[1,0],[1,0]]
C22_Reached ==
    /\ result.op = "Stat"
    /\ GridOf(1) = << << 0, 255 >>, << 0, 255 >> >>
    /\ Masked
    /\ GridOf(2) = << << 1, 0 >>, << 1, 0 >> >>
    /\ result.err = NoError
    /\ result.value.count = 2

\* len(text) * size of the last getbbox call, and its size
Product == result.args[1] * result.args[2]
FontSize == result.args[2]
\* the integer nearest to 0.6 p (6 p / 10 is never half-way between two)
Nearest(p) == (6 * p + 5) \div 10

\* C23 as stated: the box is (0, 0, w, h) with
\* w = max(1, round(len(text) * size * 0.6)) and h = max(1, size).
C23_BoxRounds ==
    result.op = "getbbox" =>
        result.value = << 0, 0, Max(1, Nearest(Product)), Max(1, FontSize) >>

\* C23, amended: the box is (0, 0, w, h) with h = max(1, size) and w the
\* largest integer not above len(text) * size * 0.6, or 1 if that is less
\* than 1; w is the rounded value or one less; the box is anchored at the
\* origin with w >= 1 and h >= 1 for every length >= 0 and size >= 0.
C23_BoxTruncates ==
    result.op = "getbbox" =>
        /\ Len(result.value) = 4
        /\ result.value[1] = 0 /\ result.value[2] = 0
        /\ result.value[3] >= 1 /\ result.value[4] >= 1
        /\ result.value[4] = Max(1, FontSize)
        /\ 6 * Product < 10 => result.value[3] = 1
        /\ 6 * Product >= 10 =>
              /\ 10 * result.value[3] <= 6 * Product
              /\ 6 * Product < 10 * (result.value[3] + 1)
        /\ result.value[3] \in { Max(1, Nearest(Product)), Max(1, Nearest(Product)) - 1 }

\* one character at size 3: 1.8 is cut to 1, where rounding gives 2
C23_Reached ==
    /\ result.op = "getbbox"
    /\ result.args = << 1, 3 >>
    /\ result.value = << 0, 0, 1, 3 >>

\* the call of this step names a pixel of its Image
NamesPixel ==
    /\ result'.args[1] < images[result'.img].width
    /\ result'.args[2] < images[result'.img].height
\* the pixel the call of this step names, before and after the step
Named == heap[images[result'.img].pixels[result'.args[2] + 1]][result'.args[1] + 1]
NamedAfter == heap'[images[result'.img].pixels[result'.args[2] + 1]][result'.args[1] + 1]
\* the step changes no pixel but the one its call names
OthersKept ==
    \A a \in 1..Len(heap), c \in 1..MaxDim :
        (c <= Len(heap[a]) /\ << a, c >> # << images[result'.img].pixels[result'.args[2] + 1],
                                             result'.args[1] + 1 >>)
            => heap'[a][c] = heap[a][c]
StoreStep ==
    /\ images' = images
    /\ Len(heap') = Len(heap)
    /\ (result'.op = "putpixel" /\ NamesPixel) =>
          /\ result'.err = NoError
          /\ NamedAfter = result'.args[3]
          /\ OthersKept
    /\ (result'.op = "getpixel" /\ NamesPixel) =>
          /\ result'.err = NoError
          /\ result'.value = Named
          /\ heap' = heap
    /\ result'.op = "save" =>
          /\ heap' = heap
          /\ result'.err = NoError
          /\ \E r \in { open(fs'[result'.path].data) } :
                r.err = NoError => r.rows = Clamped(Grid(heap, images[result'.img]))

\* C24: putpixel stores every integer unchanged, also below 0 and above 255,
\* and getpixel returns it; save, to either format, writes the clamped
\* values and leaves the Image (mode, width, height and every pixel, those
\* out of range included) as it was.
C24_ClampOnlyOnSave == [][StoreStep]_vars

\* an Image holding 300 and -1 has been saved as PNG: the file holds 255
\* and 0, the Image still 300 and -1
C24_Reached ==
    /\ result.op = "save"
    /\ result.path = PngPath
    /\ Grid(heap, Source) = << << 300, -1 >> >>
    /\ \E r \in { open(fs[PngPath].data) } :
          r.err = NoError /\ r.rows = << << 255, 0 >> >>

\* the template and the threshold of the last evaluate call
GradedTemplate == result.args[1]
Threshold == result.args[2]
Bubbles == GradedTemplate.bubbles
\* the pixels of the scan inside the elliptical mask of a bubble: those of
\* the bubble's box on the scan that lie in the ellipse inscribed in the box
InMask(bubble) ==
    LET box == RegionBox(GradedTemplate, Source.width, Source.height, bubble)
        w == box[3] - box[1]
        h == box[4] - box[2]
        rx2 == Max(2, Abs(w - 1))
        ry2 == Max(2, Abs(h - 1))
    IN  { t \in OnCanvas :
            /\ box[1] <= t[1] /\ t[1] < box[3]
            /\ box[2] <= t[2] /\ t[2] < box[4]
            /\ (2 * (t[1] - box[1]) - (w - 1)) * (2 * (t[1] - box[1]) - (w - 1)) * ry2 * ry2
               + (2 * (t[2] - box[2]) - (h - 1)) * (2 * (t[2] - box[2]) - (h - 1)) * rx2 * rx2
               <= rx2 * rx2 * ry2 * ry2 }
\* mean / 255 < threshold, for the mean of the scan over a set of pixels
MeanBelow(ts) ==
    ts # {} /\ SumAt(ts) * Threshold.den < Threshold.num * 255 * Cardinality(ts)

\* C25: evaluate raises nothing and reports a bubble whose elliptical mask
\* holds a pixel of the scan as filled exactly when the mean of the scan
\* over the pixels inside the mask, divided by 255, is below the threshold;
\* a mask that holds only 0 is
\* reported filled for every threshold > 0, one that holds only 255 is
\* reported not filled for every threshold <= 1; the result has exactly one
\* entry for every bubble of the template.
C25_FilledBelowThreshold ==
    result.op = "evaluate" =>
        /\ result.err = NoError
        /\ DOMAIN result.value = { key(Bubbles[k]) : k \in 1..Len(Bubbles) }
        /\ Cardinality(DOMAIN result.value) = Len(Bubbles)
        /\ \A k \in 1..Len(Bubbles) :
              /\ result.value[key(Bubbles[k])] \in BOOLEAN
              /\ InMask(Bubbles[k]) # {} =>
                    (result.value[key(Bubbles[k])] <=> MeanBelow(InMask(Bubbles[k])))
              /\ /\ InMask(Bubbles[k]) # {}
                 /\ \A t \in InMask(Bubbles[k]) : PixelAt(t[1], t[2]) = 0
                 /\ Threshold.num > 0
                 => result.value[key(Bubbles[k])]
              /\ /\ \A t \in InMask(Bubbles[k]) : PixelAt(t[1], t[2]) = 255
                 /\ Threshold.num <= Threshold.den
                 => ~result.value[key(Bubbles[k])]

\* a scan graded against two bubbles at threshold 1/2: one over black and
\* white pixels, reported filled, and one reported not filled
C25_Reached ==
    /\ result.op = "evaluate"
    /\ Threshold = [num |-> 1, den |-> 2]
    /\ Len(Bubbles) = 2
    /\ result.value[key(Bubbles[1])]
    /\ ~result.value[key(Bubbles[2])]
    /\ \E t \in InMask(Bubbles[1]) : PixelAt(t[1], t[2]) = 0
    /\ \E t \in InMask(Bubbles[1]) : PixelAt(t[1], t[2]) = 255
    /\ InMask(Bubbles[2]) # {}

\* the locals of the decode in progress
Local == result.args[1]
Reading == result.op = "reading"
\* a pass through the loop takes the handle 12 bytes or more ahead, and not
\* past the end of the file, or raises
Consumes ==
    (Reading /\ result'.op = "reading") =>
        \/ result'.args[1].err # NoError
        \/ /\ result'.args[1].pos >= Local.pos + 12
           /\ result'.args[1].pos <= Len(fs[PngPath].data) + 1

\* C28: the PNG decode terminates: every pass through the chunk loop takes
\* at least 12 bytes of the file or raises, and every decode that has begun
\* comes to return an Image or to raise, also for files without an IEND
\* chunk and for files of chunks of length 0.
C28_DecodeTerminates ==
    /\ [][Consumes]_vars
    /\ Reading ~> (result.op = "open")

\* the decode of a file of three chunks of length 0 and no IEND has ended,
\* at the end of the file
C28_Reached ==
    /\ OpenedOutside
    /\ Len(Chunks) = 3
    /\ \A k \in 1..3 : Chunks[k].data = << >> /\ Chunks[k].type # IEND /\ IsWhole(Chunks[k])
    /\ ReadsOn(Chunks)
    /\ made[PngPath].written = << >>
    /\ result.err = TruncatedError

RECURSIVE ChunkEnd(_)
\* the position in the file of the last byte of the k-th chunk
ChunkEnd(k) == IF k = 0 THEN Len(PNG_SIGNATURE) ELSE ChunkEnd(k - 1) + Chunks[k].kept
\* the number of chunks that lie before the handle
Taken == Cardinality({ k \in 1..Len(Chunks) : ChunkEnd(k) < Local.pos })
\* the number of chunks the loop has looked at: those before the handle,
\* without the one at which the pass raised for a short read or a wrong CRC
Passed ==
    IF Local.err = CorruptedError THEN Taken - 1
    ELSE IF Local.err = TruncatedError /\ Taken >= 1 /\ ~IsWhole(Chunks[Taken])
    THEN Taken - 1
    ELSE Taken
\* an IEND chunk that lies whole in the file and has the right CRC
IsEnd(c) == c.type = IEND /\ IsWhole(c) /\ c.crc_ok
\* what open() gives for the first n bytes of the file
OpenedUpTo(n) == open(SubSeq(fs[PngPath].data, 1, n))

\* C30: the CRC of a chunk is tested before the chunk is looked at.  While
\* the loop runs, every chunk it has looked at is whole with the right CRC,
\* the data collected is that of the IDAT chunks among them, the loop has
\* been left only at an IEND among them and nothing behind an IEND has been
\* read; the CRC error is raised at a whole chunk with a wrong CRC, whatever
\* its type and fields, and the header errors are raised only for an IHDR
\* with the right CRC.  What lies behind an IEND with the right CRC that the loop
\* reaches does not change the outcome of open().
C30_CrcBeforeChunk ==
    /\ Reading =>
          /\ Passed >= 0
          /\ Local.err # TruncatedError => Local.pos = ChunkEnd(Taken) + 1
          /\ Local.err = TruncatedError => Local.pos = Len(fs[PngPath].data) + 1
          /\ \A k \in 1..Passed : IsWhole(Chunks[k]) /\ Chunks[k].crc_ok
          /\ \A k \in 1..(Passed - 1) : Chunks[k].type # IEND
          /\ Local.idat_data = DataOf(SubSeq(Chunks, 1, Passed), 1)
          /\ Local.done => Passed >= 1 /\ IsEnd(Chunks[Passed])
          /\ Local.width # None => \E k \in 1..Passed : Chunks[k].type = IHDR
          /\ Local.err \in { ColorTypeError, CompressionError }
                => Passed >= 1 /\ Chunks[Passed].type = IHDR
          /\ Local.err = CorruptedError
                => /\ Passed < Len(Chunks)
                   /\ IsWhole(Chunks[Passed + 1])
                   /\ ~Chunks[Passed + 1].crc_ok
    /\ OpenedOutside =>
          \A e \in 1..Len(Chunks) :
              IsEnd(Chunks[e]) /\ ReadsOn(SubSeq(Chunks, 1, e - 1)) =>
                  \E r \in { OpenedUpTo(ChunkEnd(e)) } :
                      /\ r.err = result.err
                      /\ r.err = NoError => r.rows = Grid(heap, Returned)

\* the loop has raised the CRC error at an IHDR chunk with a wrong CRC and
\* a bit depth of 16, the first chunk of the file
C30_Reached ==
    /\ Reading
    /\ Passed = 0
    /\ Len(Chunks) >= 1
    /\ Chunks[1].type = IHDR /\ IsWhole(Chunks[1]) /\ ~Chunks[1].crc_ok
    /\ Chunks[1].data[9] = 16
    /\ Local.err = CorruptedError

\* a file with three bytes behind its IEND has been opened
C30_PastEnd ==
    /\ OpenedOutside
    /\ Len(Chunks) = 3
    /\ IsEnd(Chunks[3])
    /\ made[PngPath].written # << >>
    /\ result.err = NoError

\* the IDAT chunks of the file, and the file with their payloads in one chunk
IsIDAT(c) == c.type = IDAT
DataChunksOf == SelectSeq(Chunks, IsIDAT)
SingleFile ==
    PNG_SIGNATURE
    \o write_png_chunk(IHDR, LastHeader.data)
    \o write_png_chunk(IDAT, DataOf(Chunks, 1))
    \o write_png_chunk(IEND, << >>)

\* C26: the payloads of all IDAT chunks are concatenated in the order of the
\* chunks and decompressed after IEND: a file whose stream is split over
\* several IDAT chunks, with tEXt chunks between them, opens as the file
\* with the stream in one IDAT chunk does, which is to the Image the stream
\* was compressed from.
C26_SplitStream ==
    OpenedOutside =>
        /\ \E r \in { open(SingleFile) } :
               /\ r.err = result.err
               /\ r.width = Returned.width /\ r.height = Returned.height
               /\ r.rows = Grid(heap, Returned)
        /\ result.err = NoError
        /\ Returned.width = made[PngPath].width
        /\ Returned.height = made[PngPath].height
        /\ Grid(heap, Returned) = made[PngPath].grid

\* a file has been opened whose stream of a 2 x 2 Image with four different
\* values lies in three IDAT chunks, none empty, with a tEXt chunk between
\* the first and the second
C26_Reached ==
    /\ OpenedOutside
    /\ Len(DataChunksOf) = 3
    /\ \A j \in 1..3 : DataChunksOf[j].data # << >>
    /\ \E k \in 2..(Len(Chunks) - 1) :
          /\ Chunks[k].type = TextChunk.type
          /\ Chunks[k - 1].type = IDAT /\ Chunks[k + 1].type = IDAT
    /\ Grid(heap, Returned) = << << 50, 100 >>, << 150, 200 >> >>

\* the fill and the outline of the last rectangle call
Fill == result.args[6]
Outline == result.args[7]
\* the pixels of the canvas inside the box of the call, its edges included
InRect ==
    { p \in OnCanvas :
        /\ Max(0, Box[1]) <= p[1] /\ p[1] <= Min(Source.width - 1, Box[3])
        /\ Max(0, Box[2]) <= p[2] /\ p[2] <= Min(Source.height - 1, Box[4]) }
\* the canvas before the call, and a line call from (xa, ya) to (xb, yb) with
\* the outline's colour and the width of the call
Blank == new(<< >>, "L", Source.width, Source.height, 0)
Side(hp, xa, ya, xb, yb) ==
    line(hp, Source, [flat |-> TRUE, seq |-> << xa, ya, xb, yb >>], Outline, result.args[5])

\* C27: rectangle with a fill and no outline sets to the fill the pixels of
\* the canvas with max(0, x0) <= x <= min(width - 1, x1) and max(0, y0) <= y
\* <= min(height - 1, y1) and no other; with an outline the canvas is what
\* the fill (if any) followed by four line calls along the top, the right,
\* the bottom and the left edge with the call's width leaves.
C27_RectangleFill ==
    result.op = "rectangle" =>
        /\ result.err = NoError
        /\ Fill # << >> /\ Outline = << >> =>
              /\ \A p \in OnCanvas :
                    PixelAt(p[1], p[2]) = (IF p \in InRect THEN Fill[1] ELSE 0)
              /\ result.targets = InRect
        /\ Outline # << >> =>
              \E filled \in { IF Fill = << >> THEN Blank.heap
                               ELSE rectangle(Blank.heap, Source, Box[1], Box[2], Box[3],
                                              Box[4], Fill, << >>, 1).heap } :
              \E top \in { Side(filled, Box[1], Box[2], Box[3], Box[2]) } :
              \E right \in { Side(top.heap, Box[3], Box[2], Box[3], Box[4]) } :
              \E bottom \in { Side(right.heap, Box[1], Box[4], Box[3], Box[4]) } :
              \E left \in { Side(bottom.heap, Box[1], Box[2], Box[1], Box[4]) } :
                  /\ left.err = NoError
                  /\ Grid(heap, Source) = Grid(left.heap, Source)
                  /\ \A p \in InRect :
                        PixelAt(p[1], p[2])
                            \in { Outline[1] } \cup (IF Fill = << >> THEN { 0 }
                                                     ELSE { Fill[1] })

\* a filled box that lies partly off the canvas has been drawn, and a box
\* with a fill and an outline of width 2 inside the canvas
C27_Reached ==
    /\ result.op = "rectangle"
    /\ Fill # << >> /\ Outline = << >>
    /\ SubSeq(Box, 1, 4) = << -1, 2, Far \div 2, Far + 1 >>
    /\ Source.width = Far + 1
    /\ PixelAt(0, Far) = Fill[1]
    /\ PixelAt(Far \div 2 + 1, Far) = 0

\* a box with a fill and an outline of width 2 has been drawn: the outline
\* lies over the fill
C27_Outlined ==
    /\ result.op = "rectangle"
    /\ Fill # << >> /\ Outline # << >>
    /\ result.args[5] = 2
    /\ SubSeq(Box, 1, 4) = << 0, 0, Far \div 2, Far \div 2 >>
    /\ Source.width = Far + 1
    /\ PixelAt(0, 0) = Edge[1]
    /\ PixelAt(2, 2) = Fill[1]

\* the locals of the walk in progress or ended, and how far its current
\* point is from its end point
Pen == result.args[1]
Walking == result.op = "walking"
Walked == result.op = "line" /\ Len(result.args) = 1
Away(w) == Max(Abs(w.x1 - w.x), Abs(w.y1 - w.y))
\* the pixels of the canvas in the neighbourhood of the current point
Around(w) ==
    { q \in OnCanvas :
        /\ Abs(q[1] - w.x) <= w.p.width \div 2
        /\ Abs(q[2] - w.y) <= w.p.width \div 2 }
\* a walk begins at its start point; a pass paints the neighbourhood of the
\* current point, leaves the loop only at the end point, and else moves by
\* at most 1 in x and in y and comes 1 nearer to the end point
Paces ==
    /\ result.op = "" /\ result'.op = "walking" =>
          /\ result'.args[1].x = result'.args[1].p.x0
          /\ result'.args[1].y = result'.args[1].p.y0
    /\ Walking /\ result' # result =>
          /\ result'.targets = result.targets \cup Around(Pen)
          /\ result'.err = NoError
          /\ IF result'.op = "line"
             THEN Pen.x = Pen.x1 /\ Pen.y = Pen.y1 /\ result'.args = result.args
             ELSE /\ Abs(result'.args[1].x - Pen.x) <= 1
                  /\ Abs(result'.args[1].y - Pen.y) <= 1
                  /\ Away(result'.args[1]) = Away(Pen) - 1

\* C29: the walk of a line terminates for all integer end points: it begins
\* with the neighbourhood of the start point, every pass moves by at most 1
\* in x and in y and comes 1 nearer to the end point, so that the loop is
\* left after max(|x1 - x0|, |y1 - y0|) passes that move, with the last
\* neighbourhood painted around the end point.
C29_WalkArrives ==
    /\ [][Paces]_vars
    /\ Walking ~> Walked

\* a walk of width 2 from a point off the canvas to another, through the
\* canvas, has ended; what it painted is what the call paints at once
C29_Reached ==
    /\ Walked
    /\ Pen.p.x0 = 0 - Far /\ Pen.p.y0 = Far
    /\ Pen.x1 = Far \div 2 /\ Pen.y1 = -1
    /\ Pen.p.width = 2
    /\ Source.width = Far + 1
    /\ result.changed

\* the walk pass by pass paints what line() paints
WalkIsLine ==
    Walked =>
        \E r \in { line(Blank.heap, Source,
                        [flat |-> TRUE, seq |-> << Pen.p.x0, Pen.p.y0, Pen.x1, Pen.y1 >>],
                        Pen.p.fill, Pen.p.width) } :
            /\ r.err = result.err
            /\ r.targets = result.targets
            /\ Grid(r.heap, Source) = Grid(heap, Source)

====
